---- MODULE Spec2Model ----
(***************************************************************************)
(* urlredir: the request pipeline (middleware chain, panic recovery,       *)
(* transaction lifecycle, error rendering) and the four request handlers,  *)
(* over a store with the two tables urls and hits.                         *)
(*                                                                         *)
(* A request is served by one worker (a slot).  The composed handler of a  *)
(* route is a sequence of layers, outermost first, as built by chain.apply.*)
(* A worker enters the layers one by one (pc = "call"), runs the handler   *)
(* body (pc = a handler position), and then unwinds its stack of entered   *)
(* layers, either returning normally (pc = "ret") or with a panic in       *)
(* flight (pc = "panic").                                                  *)
(***************************************************************************)
EXTENDS Integers, Sequences, FiniteSets, TLC

\* ---------------------------------------------------------------- bounds
MaxReqs == 3
MaxChain == 3
MaxConcReqs == 2
MaxGoneReqs == 1

Slots == {1, 2}

\* ---------------------------------------------------------------- values
Names == {"foo", "baz"}
Users == {"test", "bar"}
cExampleCom == "http://example.com"
cExampleOrg == "http://example.org"
BadURL == ":foo/bar"
GoodAddr == [host |-> "192.0.2.1", port |-> "1234"]
BadAddr == [host |-> "foo", port |-> ""]
ProxyAddr == [host |-> "198.51.100.7", port |-> ""]
ValidIPs == {"192.0.2.1", "198.51.100.7", "::1"}

NoAddr == [host |-> "", port |-> ""]
NoRow == [id |-> 0]
Untouched == [id |-> -1]
NoUser == [set |-> FALSE]
NoPanic == [kind |-> "none"]
NoErr == [kind |-> "nil"]

StatusOK == 200
StatusMovedPermanently == 301
StatusSeeOther == 303
StatusBadRequest == 400
StatusForbidden == 403
StatusNotFound == 404
StatusInternalServerError == 500

\* net/http.StatusText for the codes the program uses
StatusText(code) ==
    CASE code = 400 -> "Bad Request"
      [] code = 403 -> "Forbidden"
      [] code = 404 -> "Not Found"
      [] code = 500 -> "Internal Server Error"
      [] OTHER -> ""

\* sentinel errors
ErrInvalidIP == "invalid IP"
ErrInvalidURL == "invalid URL"
ErrMissingName == "missing name"
ErrMissingURL == "missing URL"
ErrMissingUser == "missing user"
ErrUnknown == "unknown error"
\* database/sql sentinels and driver failures
ErrTxDone == "sql: transaction has already been committed or rolled back"
ErrNoRows == "sql: no rows in result set"
ErrBegin == "begin failed"
ErrCommit == "commit failed"
ErrRollback == "rollback failed"
ErrStmt == "statement failed"
ErrClose == "rows close failed"
ErrUnique == "duplicate key value violates unique constraint"
\* ctx.Err() of a request whose client has gone away
ErrCanceled == "context canceled"

\* an error value: a plain error (sentinel or wrapped), or an *HTTPError
PlainError(msg) == [kind |-> "error", msg |-> msg]
HTTPError(code, err, msg) == [kind |-> "http", code |-> code, err |-> err, msg |-> msg]
\* fmt.Errorf("failed rolling back: %w", er)
WrapRollback(er) == [kind |-> "error", msg |-> "failed rolling back", cause |-> er.msg]

\* a panic value: an error, or any other value (the handlers panic with strings)
PanicErr(msg) == [kind |-> "error", msg |-> msg]
PanicStr(s) == [kind |-> "string", msg |-> s]

\* ---------------------------------------------------------------- layers
MwPanic == [kind |-> "panicMiddleware", arg |-> ""]
MwLogger == [kind |-> "loggerMiddleware", arg |-> ""]
MwDb == [kind |-> "dbMiddleware", arg |-> ""]
realIPMiddlewareOf(header) == [kind |-> "realIPMiddleware", arg |-> header]
staticUserMiddlewareOf(user) == [kind |-> "staticUserMiddleware", arg |-> user]
remoteUserMiddlewareOf(header) == [kind |-> "remoteUserMiddleware", arg |-> header]

Routes == {"redirHandler", "deleteHandler", "adminGetHandler", "adminPostHandler"}

\* withError(h): the adapter around an error-returning handler h
withError(h) == <<[kind |-> "withError", arg |-> h]>>

\* m(h): a handler is written as the sequence of its layers, outermost first
Wrap(m, h) == <<m>> \o h

\* chain.apply: for i := range c { h = c[len(c)-1-i](h) }
\* mutant: the loop wraps with c[i] where it should wrap with c[len(c)-1-i]
RECURSIVE applyLoopForward(_, _, _)
applyLoopForward(c, h, i) ==
    IF i >= Len(c) THEN h ELSE applyLoopForward(c, Wrap(c[i + 1], h), i + 1)

RECURSIVE applyLoop(_, _, _)
applyLoop(c, h, i) ==
    IF i >= Len(c) THEN h
    ELSE applyLoop(c, Wrap(c[Len(c) - i], h), i + 1)

apply(c, h) == applyLoop(c, h, 0)

applyE(c, h) == apply(c, withError(h))

\* mutant: the transaction layer is put outside panic recovery and logging
muxChainDbOutside(cf) ==
    LET mws0 == <<MwDb, MwPanic, MwLogger>>
        mws1 == IF cf.RealIPHeader # ""
                THEN Append(mws0, realIPMiddlewareOf(cf.RealIPHeader))
                ELSE mws0
    IN  IF cf.RemoteUserHeader # ""
        THEN Append(mws1, remoteUserMiddlewareOf(cf.RemoteUserHeader))
        ELSE Append(mws1, staticUserMiddlewareOf("test"))

\* setupServeMux: the chain of the four routes under a configuration
muxChain(cf) ==
    LET mws0 == <<MwPanic, MwLogger, MwDb>>
        mws1 == IF cf.RealIPHeader # ""
                THEN Append(mws0, realIPMiddlewareOf(cf.RealIPHeader))
                ELSE mws0
    IN  IF cf.RemoteUserHeader # ""
        THEN Append(mws1, remoteUserMiddlewareOf(cf.RemoteUserHeader))
        ELSE Append(mws1, staticUserMiddlewareOf("test"))

setupServeMux(cf) == [rt \in Routes |-> applyE(muxChain(cf), rt)]

Configs == [RealIPHeader : {"", "X-Real-IP"}, RemoteUserHeader : {"", "X-Remote-User"}]

\* the middlewares a hand-built chain (as in the tests) is made of
Middlewares ==
    {MwPanic, MwLogger, MwDb, realIPMiddlewareOf("X-Real-IP"),
     staticUserMiddlewareOf("test"), remoteUserMiddlewareOf("X-Remote-User")}

RECURSIVE ChainsOfLen(_)
ChainsOfLen(n) ==
    IF n = 0 THEN {<<>>}
    ELSE {Append(c, m) : c \in ChainsOfLen(n - 1), m \in Middlewares}

Distinct(c) == \A i, j \in 1..Len(c) : i # j => c[i].kind # c[j].kind

Chains == {c \in UNION {ChainsOfLen(n) : n \in 0..MaxChain} : Distinct(c)}

\* ---------------------------------------------------------------- parseIP
\* net.SplitHostPort fails on an address without a port; inet is then s
parseIP(s) ==
    LET inet == s.host
    IN  IF inet \in ValidIPs THEN [ok |-> TRUE, ip |-> inet]
        ELSE [ok |-> FALSE, ip |-> ""]

\* nurl.Parse fails on the malformed URL the tests use
urlParses(u) == u # BadURL

\* ---------------------------------------------------------------- response
NoResp == [code |-> 0, body |-> <<>>, loc |-> "", cache |-> ""]

\* ResponseWriter.WriteHeader: only the first status counts
WriteHeader(rs, code) == IF rs.code = 0 THEN [rs EXCEPT !.code = code] ELSE rs

\* ResponseWriter.Write: an implicit WriteHeader(200) if none was written yet
Write(rs, b) == [WriteHeader(rs, StatusOK) EXCEPT !.body = Append(@, b)]

\* the status the client gets: 200 when the handler has returned without
\* writing a header (rr.Code of the recorder in testRequest, and net/http)
ClientStatus(rs) == IF rs.code = 0 THEN StatusOK ELSE rs.code

\* mutant: the error takes the place of what was written before
httpErrorResets(rs, msg, code) == [rs EXCEPT !.code = code, !.body = <<msg>>]

\* http.Error(w, msg, code)
httpError(rs, msg, code) == Write(WriteHeader(rs, code), msg)

\* mutant: the redirect is sent without its Location
httpRedirectNoLocation(rs, url, code) == WriteHeader(rs, code)

\* http.Redirect(w, r, url, code) with no body (Content-Type is set, or the
\* method is POST)
httpRedirect(rs, url, code) ==
    WriteHeader(IF rs.code = 0 THEN [rs EXCEPT !.loc = url] ELSE rs, code)

\* mutant: the text of the error is sent to the client
handleErrorLeaks(rs, err, code) == httpError(rs, err, code)

\* handleError(w, err, code): err goes to the log, the reason phrase of code
\* to the client with http.Error
handleError(rs, err, code) == httpError(rs, StatusText(code), code)

\* mutant: the message is sent as it is, empty or not
polishNever(e) == e

\* HTTPError.polish: an empty message becomes the reason phrase of the code
polish(e) == IF e.msg = "" THEN [e EXCEPT !.msg = StatusText(e.code)] ELSE e

\* mutant: the message of the error is dropped for the reason phrase
HTTPErrorServeHTTPReasonOnly(rs, e) == httpError(rs, StatusText(e.code), e.code)

\* HTTPError.ServeHTTP
HTTPErrorServeHTTP(rs, e) == httpError(rs, polish(e).msg, e.code)

\* ---------------------------------------------------------------- store
\* table urls: name -> row (or NoRow); table hits: a sequence of hit rows
Row(id, url, user, n) == [id |-> id, url |-> url, user |-> user, hits |-> n]

EmptyUrls == [n \in Names |-> NoRow]
SeededUrls == [EmptyUrls EXCEPT !["foo"] = Row(1, cExampleCom, "test", 0)]

\* a transaction: its state, the rows it has written (and so locked) and the
\* hit rows it has inserted
NoTx == [st |-> "none", w |-> [n \in Names |-> Untouched], h |-> <<>>]
OpenTx == [NoTx EXCEPT !.st = "open"]

\* sql.Tx is done after a call of Commit or Rollback got past the done flag
TxDone(t) == t.st \in {"committed", "rolledback", "broken"}

\* the context the transaction was begun with is done, and the goroutine of
\* database/sql that watches it has not rolled the transaction back yet
Canceled(t) == t.st = "canceled"

\* what transaction t sees of row n: its own version, else the committed one
View(t, committed, n) == IF t.w[n] # Untouched THEN t.w[n] ELSE committed[n]

RECURSIVE SelectHits(_, _)
SelectHits(hs, ids) ==
    IF hs = <<>> THEN <<>>
    ELSE IF Head(hs).url_id \in ids
         THEN <<Head(hs)>> \o SelectHits(Tail(hs), ids)
         ELSE SelectHits(Tail(hs), ids)

\* the tables after transaction t commits; hits of a deleted url go with it
\* (url_id REFERENCES urls(id) ON DELETE CASCADE)
CommittedUrls(t, committed) == [n \in Names |-> View(t, committed, n)]

\* mutant: the hits of a deleted url stay behind
CommittedHitsNoCascade(t, committed, chits) == chits \o t.h

CommittedHits(t, committed, chits) ==
    LET nu == CommittedUrls(t, committed)
        ids == {nu[n].id : n \in {m \in Names : nu[m] # NoRow}}
    IN  SelectHits(chits \o t.h, ids)

\* mutant: a miss is reported with an error that is not sql.ErrNoRows
getURLnIDWrapsNoRows(t, committed, name, fault) ==
    IF TxDone(t) THEN [tx |-> t, err |-> ErrTxDone, row |-> NoRow]
    ELSE IF Canceled(t) THEN [tx |-> t, err |-> ErrCanceled, row |-> NoRow]
    ELSE IF t.st = "failed" \/ fault = "stmt"
    THEN [tx |-> [t EXCEPT !.st = "failed"], err |-> ErrStmt, row |-> NoRow]
    ELSE LET r == View(t, committed, name)
         IN  IF r = NoRow THEN [tx |-> t, err |-> ErrStmt, row |-> NoRow]
             ELSE [tx |-> [t EXCEPT !.w[name] = [r EXCEPT !.hits = @ + 1]],
                   err |-> "", row |-> r]

\* UPDATE urls SET hits=hits+1 WHERE name=$1 RETURNING id,url
getURLnID(t, committed, name, fault) ==
    IF TxDone(t) THEN [tx |-> t, err |-> ErrTxDone, row |-> NoRow]
    ELSE IF Canceled(t) THEN [tx |-> t, err |-> ErrCanceled, row |-> NoRow]
    ELSE IF t.st = "failed" \/ fault = "stmt"
    THEN [tx |-> [t EXCEPT !.st = "failed"], err |-> ErrStmt, row |-> NoRow]
    ELSE LET r == View(t, committed, name)
         IN  IF r = NoRow THEN [tx |-> t, err |-> ErrNoRows, row |-> NoRow]
             ELSE [tx |-> [t EXCEPT !.w[name] = [r EXCEPT !.hits = @ + 1]],
                   err |-> "", row |-> r]

\* SELECT id,"user" FROM urls WHERE name=$1
getIDnUser(t, committed, name, fault) ==
    IF TxDone(t) THEN [tx |-> t, err |-> ErrTxDone, row |-> NoRow]
    ELSE IF Canceled(t) THEN [tx |-> t, err |-> ErrCanceled, row |-> NoRow]
    ELSE IF t.st = "failed" \/ fault = "stmt"
    THEN [tx |-> [t EXCEPT !.st = "failed"], err |-> ErrStmt, row |-> NoRow]
    ELSE LET r == View(t, committed, name)
         IN  IF r = NoRow THEN [tx |-> t, err |-> ErrNoRows, row |-> NoRow]
             ELSE [tx |-> t, err |-> "", row |-> r]

\* DELETE FROM urls WHERE name=$1
removeURL(t, committed, name, fault) ==
    IF TxDone(t) THEN [tx |-> t, err |-> ErrTxDone]
    ELSE IF Canceled(t) THEN [tx |-> t, err |-> ErrCanceled]
    ELSE IF t.st = "failed" \/ fault = "stmt"
    THEN [tx |-> [t EXCEPT !.st = "failed"], err |-> ErrStmt]
    ELSE IF View(t, committed, name) = NoRow THEN [tx |-> t, err |-> ""]
    ELSE [tx |-> [t EXCEPT !.w[name] = NoRow], err |-> ""]

\* INSERT INTO hits (url_id, remotehost, agent, referrer) VALUES ($1, $2, $3, $4)
addHit(t, urlID, ip, agent, referrer, fault) ==
    IF TxDone(t) THEN [tx |-> t, err |-> ErrTxDone]
    ELSE IF Canceled(t) THEN [tx |-> t, err |-> ErrCanceled]
    ELSE IF t.st = "failed" \/ fault = "stmt"
    THEN [tx |-> [t EXCEPT !.st = "failed"], err |-> ErrStmt]
    ELSE [tx |-> [t EXCEPT !.h = Append(@, [url_id |-> urlID, remotehost |-> ip,
                                            agent |-> agent, referrer |-> referrer])],
          err |-> ""]

\* mutant: url and user go into each other's column
addURLSwapsColumns(t, committed, id, name, url, user, fault) ==
    IF TxDone(t) THEN [tx |-> t, err |-> ErrTxDone]
    ELSE IF Canceled(t) THEN [tx |-> t, err |-> ErrCanceled]
    ELSE IF t.st = "failed" \/ fault = "stmt"
    THEN [tx |-> [t EXCEPT !.st = "failed"], err |-> ErrStmt]
    ELSE IF View(t, committed, name) # NoRow
    THEN [tx |-> [t EXCEPT !.st = "failed"], err |-> ErrUnique]
    ELSE [tx |-> [t EXCEPT !.w[name] = Row(id, user, url, 0)], err |-> ""]

\* mutant: the insert replaces the row of a name that is taken
addURLOverwrites(t, committed, id, name, url, user, fault) ==
    IF TxDone(t) THEN [tx |-> t, err |-> ErrTxDone]
    ELSE IF Canceled(t) THEN [tx |-> t, err |-> ErrCanceled]
    ELSE IF t.st = "failed" \/ fault = "stmt"
    THEN [tx |-> [t EXCEPT !.st = "failed"], err |-> ErrStmt]
    ELSE [tx |-> [t EXCEPT !.w[name] = Row(id, url, user, 0)], err |-> ""]

\* mutant: the insert of a name that is taken does nothing and reports no error
addURLIgnoresDuplicate(t, committed, id, name, url, user, fault) ==
    IF TxDone(t) THEN [tx |-> t, err |-> ErrTxDone]
    ELSE IF Canceled(t) THEN [tx |-> t, err |-> ErrCanceled]
    ELSE IF t.st = "failed" \/ fault = "stmt"
    THEN [tx |-> [t EXCEPT !.st = "failed"], err |-> ErrStmt]
    ELSE IF View(t, committed, name) # NoRow THEN [tx |-> t, err |-> ""]
    ELSE [tx |-> [t EXCEPT !.w[name] = Row(id, url, user, 0)], err |-> ""]

\* INSERT INTO urls (name, url, "user") VALUES ($1, $2, $3); name is UNIQUE
addURL(t, committed, id, name, url, user, fault) ==
    IF TxDone(t) THEN [tx |-> t, err |-> ErrTxDone]
    ELSE IF Canceled(t) THEN [tx |-> t, err |-> ErrCanceled]
    ELSE IF t.st = "failed" \/ fault = "stmt"
    THEN [tx |-> [t EXCEPT !.st = "failed"], err |-> ErrStmt]
    ELSE IF View(t, committed, name) # NoRow
    THEN [tx |-> [t EXCEPT !.st = "failed"], err |-> ErrUnique]
    ELSE [tx |-> [t EXCEPT !.w[name] = Row(id, url, user, 0)], err |-> ""]

\* mutant: the query has lost its WHERE clause
urlsForUserAll(t, committed, user, fault) ==
    IF TxDone(t) THEN [tx |-> t, err |-> ErrTxDone, urls |-> {}, pan |-> NoPanic]
    ELSE IF Canceled(t) THEN [tx |-> t, err |-> ErrCanceled, urls |-> {}, pan |-> NoPanic]
    ELSE IF t.st = "failed" \/ fault = "stmt"
    THEN [tx |-> [t EXCEPT !.st = "failed"], err |-> ErrStmt, urls |-> {}, pan |-> NoPanic]
    ELSE IF fault = "close"
    THEN [tx |-> t, err |-> "", urls |-> {}, pan |-> PanicErr(ErrClose)]
    ELSE [tx |-> t, err |-> "", pan |-> NoPanic,
          urls |-> {[name |-> n, url |-> View(t, committed, n).url,
                     hits |-> View(t, committed, n).hits] :
                    n \in {m \in Names : View(t, committed, m) # NoRow}}]

\* SELECT name, url, hits FROM urls WHERE "user" = $1; the deferred
\* rows.Close() panics with its error
urlsForUser(t, committed, user, fault) ==
    IF TxDone(t) THEN [tx |-> t, err |-> ErrTxDone, urls |-> {}, pan |-> NoPanic]
    ELSE IF Canceled(t) THEN [tx |-> t, err |-> ErrCanceled, urls |-> {}, pan |-> NoPanic]
    ELSE IF t.st = "failed" \/ fault = "stmt"
    THEN [tx |-> [t EXCEPT !.st = "failed"], err |-> ErrStmt, urls |-> {}, pan |-> NoPanic]
    ELSE IF fault = "close"
    THEN [tx |-> t, err |-> "", urls |-> {}, pan |-> PanicErr(ErrClose)]
    ELSE [tx |-> t, err |-> "", pan |-> NoPanic,
          urls |-> {[name |-> n, url |-> View(t, committed, n).url,
                     hits |-> View(t, committed, n).hits] :
                    n \in {m \in Names : View(t, committed, m) # NoRow
                                         /\ View(t, committed, m).user = user}}]

\* mutant: Commit does not look at the context of the transaction
CommitIgnoresContext(t, fault) ==
    IF TxDone(t) THEN [tx |-> t, err |-> ErrTxDone]
    ELSE IF t.st = "failed" THEN [tx |-> [t EXCEPT !.st = "rolledback"], err |-> ErrCommit]
    ELSE IF fault = "commit" THEN [tx |-> [t EXCEPT !.st = "broken"], err |-> ErrCommit]
    ELSE [tx |-> [t EXCEPT !.st = "committed"], err |-> ""]

\* sql.Tx.Commit: ErrTxDone once done; ctx.Err() when the context of the
\* transaction is done; the driver refuses to commit a failed transaction and
\* rolls it back; a driver failure leaves nothing applied
Commit(t, fault) ==
    IF TxDone(t) THEN [tx |-> t, err |-> ErrTxDone]
    ELSE IF Canceled(t) THEN [tx |-> t, err |-> ErrCanceled]
    ELSE IF t.st = "failed" THEN [tx |-> [t EXCEPT !.st = "rolledback"], err |-> ErrCommit]
    ELSE IF fault = "commit" THEN [tx |-> [t EXCEPT !.st = "broken"], err |-> ErrCommit]
    ELSE [tx |-> [t EXCEPT !.st = "committed"], err |-> ""]

\* sql.Tx.Rollback
Rollback(t, fault) ==
    IF TxDone(t) THEN [tx |-> t, err |-> ErrTxDone]
    ELSE IF fault = "rollback" THEN [tx |-> [t EXCEPT !.st = "broken"], err |-> ErrRollback]
    ELSE [tx |-> [t EXCEPT !.st = "rolledback"], err |-> ""]

\* ---------------------------------------------------------------- state
VARIABLES
    conf,      \* the configuration read at startup
    mws,       \* the middleware chain the routes are built with
    mux,       \* route -> composed handler (sequence of layers, outermost first)
    workers,   \* the slots that serve requests
    urls,      \* committed table urls
    hits,      \* committed table hits
    nextId,    \* the serial of urls.id
    started,   \* number of requests accepted so far
    quota,     \* number of requests the run accepts
    w,         \* slot -> the worker's request, position, stack, response
    tx         \* slot -> the transaction of the worker's request

vars == <<conf, mws, mux, workers, urls, hits, nextId, started, quota, w, tx>>

NoReq == [route |-> "", name |-> "", addr |-> NoAddr, hReal |-> NoAddr, hUser |-> "",
          agent |-> "", referer |-> "",
          form |-> [name |-> "", url |-> "", user |-> ""], fault |-> "none"]

\* the context and the fields of one *http.Request value
NoCtx == [tx |-> FALSE, user |-> NoUser]
UserVal(u) == [set |-> TRUE, v |-> u]

IdleW == [pc |-> "idle", rq |-> NoReq, todo |-> <<>>, stack |-> <<>>, objs |-> <<>>,
          cur |-> 0, resp |-> NoResp, pan |-> NoPanic, err |-> NoErr, lk |-> NoRow,
          ip |-> "", ev |-> <<>>, pre |-> [urls |-> EmptyUrls, hits |-> <<>>],
          cc |-> -1, log |-> <<>>]

Faults == {"none", "begin", "stmt", "commit", "rollback"}

\* rows.Close() can fail only where rows are read
ListFaults == Faults \cup {"close"}

\* the forms of an admin-add request: complete, and with fields missing or bad
Forms ==
    [name : {"", "baz"}, url : {"", cExampleCom, BadURL}, user : {"", "test"}]
       \cup {[name |-> "baz", url |-> cExampleOrg, user |-> "bar"],
             [name |-> "foo", url |-> cExampleOrg, user |-> "bar"]}

\* every field of the form is there and the URL is one that parses
FormComplete(fm) == fm.name # "" /\ fm.url \notin {"", BadURL} /\ fm.user # ""

\* the inputs of a request of each route (fields a route does not read are left
\* empty); an incomplete form reaches no statement and no Commit that could fail
RequestsOf(rt) ==
    CASE rt = "redirHandler" ->
           {rq \in {[NoReq EXCEPT !.route = rt, !.name = n, !.addr = a[1], !.hReal = a[2],
                                   !.agent = "testagent", !.referer = r, !.fault = f] :
                      n \in Names, f \in Faults, r \in {"", cExampleOrg},
                      a \in {<<GoodAddr, NoAddr>>, <<BadAddr, NoAddr>>, <<BadAddr, ProxyAddr>>,
                             <<GoodAddr, BadAddr>>}} :
              /\ (rq.addr = GoodAddr /\ rq.hReal = NoAddr) \/ rq.fault \in {"none", "commit"}
              /\ rq.referer = "" \/ (rq.addr = GoodAddr /\ rq.hReal = NoAddr /\ rq.fault = "none")}
      [] rt = "deleteHandler" ->
           {[NoReq EXCEPT !.route = rt, !.name = n, !.addr = GoodAddr, !.hUser = u, !.fault = f] :
              n \in Names, u \in Users \cup {""}, f \in Faults}
      [] rt = "adminGetHandler" ->
           {[NoReq EXCEPT !.route = rt, !.addr = GoodAddr, !.hUser = u, !.fault = f] :
              u \in Users \cup {""}, f \in ListFaults}
      [] rt = "adminPostHandler" ->
           {rq \in {[NoReq EXCEPT !.route = rt, !.addr = GoodAddr, !.hUser = u,
                                   !.fault = f, !.form = fm] :
                      f \in Faults, fm \in Forms, u \in Users \cup {""}} :
              /\ FormComplete(rq.form) \/ rq.fault \in {"none", "rollback"}
              /\ rq.hUser = "test" \/ (FormComplete(rq.form) /\ rq.fault = "none")}

\* the requests that are served side by side: redirects of foo that commit,
\* that fail to commit and that come from a bad address, a delete of foo by
\* its owner, a listing whose rows.Close() fails, a listing, an add of baz
ConcRequestsOf(rt) ==
    CASE rt = "redirHandler" ->
           {[NoReq EXCEPT !.route = rt, !.name = "foo", !.addr = a[1], !.hReal = a[2],
                          !.agent = "testagent", !.fault = f] :
              f \in {"none", "commit"}, a \in {<<GoodAddr, NoAddr>>, <<BadAddr, ProxyAddr>>}}
      [] rt = "deleteHandler" ->
           {[NoReq EXCEPT !.route = rt, !.name = "foo", !.addr = GoodAddr, !.hUser = "test"]}
      [] rt = "adminGetHandler" ->
           {[NoReq EXCEPT !.route = rt, !.addr = GoodAddr, !.hUser = "test", !.fault = "close"]}
      [] rt = "adminPostHandler" ->
           {[NoReq EXCEPT !.route = rt, !.addr = GoodAddr, !.hUser = "test",
                          !.form = [name |-> "baz", url |-> cExampleCom, user |-> "test"]]}

\* the requests a run draws from
Requests(rt) == IF workers = Slots THEN ConcRequestsOf(rt) ELSE RequestsOf(rt)

Ev(e, l, res) == [e |-> e, l |-> l, res |-> res]

TypeOK ==
    /\ conf \in Configs
    /\ workers \subseteq Slots
    /\ started \in 0..quota
    /\ nextId \in 1..(quota + 2)
    /\ \A s \in Slots : w[s].pc \in {"idle", "call", "redirHandler", "redirAddHit",
                                      "deleteHandler", "deleteRemove", "adminGetHandler",
                                      "adminPostHandler", "withErrorRet", "ret", "panic",
                                      "done", "crashed"}
    /\ \A s \in Slots : tx[s].st \in {"none", "open", "failed", "canceled", "committed",
                                       "rolledback", "broken"}

InitStore ==
    /\ urls \in {EmptyUrls, SeededUrls}
    /\ hits = <<>>
    /\ nextId = 2
    /\ started = 0
    /\ w = [s \in Slots |-> IdleW]
    /\ tx = [s \in Slots |-> NoTx]

\* the service as main starts it: the mux of setupServeMux; requests one after another
Init ==
    /\ conf \in Configs
    /\ mws = muxChain(conf)
    /\ mux = setupServeMux(conf)
    /\ workers = {1}
    /\ quota = MaxReqs
    /\ InitStore

\* a handler under a hand-built chain, as the tests build them; one request
InitChain ==
    /\ conf \in {[RealIPHeader |-> "X-Real-IP", RemoteUserHeader |-> "X-Remote-User"]}
    /\ mws \in Chains
    /\ mux = [rt \in Routes |-> applyE(mws, rt)]
    /\ workers = {1}
    /\ quota = 1
    /\ InitStore

\* the service with a second request in progress while the first is served:
\* net/http runs every request in a goroutine of its own
InitConc ==
    /\ conf \in {[RealIPHeader |-> "", RemoteUserHeader |-> ""],
                 [RealIPHeader |-> "X-Real-IP", RemoteUserHeader |-> "X-Remote-User"]}
    /\ mws = muxChain(conf)
    /\ mux = setupServeMux(conf)
    /\ workers = Slots
    /\ quota = MaxConcReqs
    /\ InitStore
    /\ urls = SeededUrls

\* the service as main starts it, for the runs in which clients go away
InitGone ==
    /\ conf \in Configs
    /\ mws = muxChain(conf)
    /\ mux = setupServeMux(conf)
    /\ workers = {1}
    /\ quota = MaxGoneReqs
    /\ InitStore

\* the errors an errorHandler can hand to withError: nil, errors without a
\* status (the no-rows sentinel of database/sql among them) and HTTP errors
HandlerErrors ==
    {NoErr,
     PlainError(ErrNoRows), PlainError(ErrStmt), PlainError(ErrInvalidIP),
     WrapRollback(PlainError(ErrRollback)),
     HTTPError(StatusNotFound, ErrNoRows, ""), HTTPError(StatusNotFound, "", ""),
     HTTPError(StatusForbidden, "", ""), HTTPError(StatusBadRequest, "", "Missing user"),
     HTTPError(StatusBadRequest, ErrInvalidURL, ErrInvalidURL)}

\* withError(h) serving a request on its own, at the return of h with error e
Returned(e) ==
    [IdleW EXCEPT !.pc = "withErrorRet", !.err = e,
                  !.stack = <<[layer |-> [kind |-> "withError", arg |-> ""], obj |-> 1]>>,
                  !.objs = <<[ctx |-> NoCtx, addr |-> GoodAddr]>>,
                  !.cur = 1,
                  !.ev = <<Ev("enter", "withError", "")>>]

\* withError around an errorHandler that has just returned any of
\* HandlerErrors; the requests after it go through the mux of setupServeMux
InitErr ==
    /\ conf \in Configs
    /\ mws = muxChain(conf)
    /\ mux = setupServeMux(conf)
    /\ workers = {1}
    /\ quota = MaxReqs
    /\ urls \in {EmptyUrls, SeededUrls}
    /\ hits = <<>>
    /\ nextId = 2
    /\ started = 1
    /\ tx = [s \in Slots |-> NoTx]
    /\ \E e \in HandlerErrors :
          w = [s \in Slots |->
                 IF s = 1 THEN [Returned(e) EXCEPT !.pre = [urls |-> urls, hits |-> hits]]
                 ELSE IdleW]

\* ---------------------------------------------------------------- helpers
Top(s) == w[s].stack[Len(w[s].stack)]
Pop(st) == SubSeq(st, 1, Len(st) - 1)
Cur(s) == w[s].objs[w[s].cur]

\* the layer at the head of todo is entered: a frame for it is pushed; it
\* passes request value nxt to the layer below
Entered(s, l, objs2, nxt, evs) ==
    [w[s] EXCEPT !.todo = Tail(@),
                 !.stack = Append(@, [layer |-> l, obj |-> w[s].cur]),
                 !.objs = objs2, !.cur = nxt,
                 !.ev = @ \o <<Ev("enter", l.kind, "")>> \o evs]

\* the top frame is left; with no frame left the request is over
Left(s, rec, mode) ==
    LET st == Pop(w[s].stack)
    IN  [rec EXCEPT !.stack = st,
                    !.pc = IF st # <<>> THEN mode
                           ELSE IF mode = "panic" THEN "crashed" ELSE "done",
                    !.ev = @ \o <<Ev("exit", Top(s).layer.kind, mode)>>]

\* mutant: realIPMiddleware takes the header value even when it is empty
fixRemoteAddrAlways(addr, realIP) == realIP

\* if realIP != "" { r.RemoteAddr = realIP }
fixRemoteAddr(addr, realIP) == IF realIP # NoAddr THEN realIP ELSE addr

\* mutant: the context is changed in the request value the outer layers hold
WithContextInPlace(objs, cur, o) == [objs |-> [objs EXCEPT ![cur] = o], cur |-> cur]

\* r.WithContext(ctx): a copy of the request value with the new context for
\* the layer below; the request value of the caller stays as it is
WithContext(objs, cur, o) == [objs |-> Append(objs, o), cur |-> Len(objs) + 1]

\* mutant: dbMiddleware keeps the transaction in one variable for all requests
TxOfShared(s) == 1

\* the transaction the request of worker s works on: the local tx of its own
\* call of dbMiddleware, which put it into the context the handler reads it from
TxOf(s) == s

\* mutant: the counter is read and written back without the row lock
BlockedNever(s, n) == FALSE

\* another transaction in progress has written row n and holds its lock
Blocked(s, n) ==
    \E t \in Slots \ {s} :
        tx[t].st \in {"open", "failed", "canceled"} /\ tx[t].w[n] # Untouched

NextLayerIs(s, k) ==
    /\ s \in workers
    /\ w[s].pc = "call"
    /\ w[s].todo # <<>>
    /\ Head(w[s].todo).kind = k

TopLayerIs(s, mode, k) ==
    /\ s \in workers
    /\ w[s].pc = mode
    /\ w[s].stack # <<>>
    /\ Top(s).layer.kind = k

\* ---------------------------------------------------------------- actions
\* net/http accepts a request and hands it to the handler of its route
Start(s) ==
    /\ s \in workers
    /\ w[s].pc = "idle"
    /\ started < quota
    /\ \E rt \in Routes : \E rq \in Requests(rt) :
         w' = [w EXCEPT ![s] =
                 [IdleW EXCEPT !.pc = "call", !.rq = rq, !.todo = mux[rt],
                               !.objs = <<[ctx |-> NoCtx, addr |-> rq.addr]>>,
                               !.cur = 1,
                               !.pre = [urls |-> urls, hits |-> hits]]]
    /\ started' = started + 1
    /\ tx' = [tx EXCEPT ![s] = NoTx]
    /\ UNCHANGED <<conf, mws, mux, workers, urls, hits, nextId, quota>>

\* panicMiddleware: defer the recovery, call next
PanicMiddlewareCall(s) ==
    /\ NextLayerIs(s, "panicMiddleware")
    /\ w' = [w EXCEPT ![s] = Entered(s, Head(w[s].todo), w[s].objs, w[s].cur, <<>>)]
    /\ UNCHANGED <<conf, mws, mux, workers, urls, hits, nextId, started, quota, tx>>

\* loggerMiddleware: note the time, call next
LoggerMiddlewareCall(s) ==
    /\ NextLayerIs(s, "loggerMiddleware")
    /\ w' = [w EXCEPT ![s] = Entered(s, Head(w[s].todo), w[s].objs, w[s].cur, <<>>)]
    /\ UNCHANGED <<conf, mws, mux, workers, urls, hits, nextId, started, quota, tx>>

\* realIPMiddleware: r.RemoteAddr = realIP when the header is not empty
RealIPMiddlewareCall(s) ==
    /\ NextLayerIs(s, "realIPMiddleware")
    /\ LET realIP == IF Head(w[s].todo).arg = "X-Real-IP" THEN w[s].rq.hReal ELSE NoAddr
           objs2 == [w[s].objs EXCEPT ![w[s].cur].addr = fixRemoteAddr(@, realIP)]
       IN  w' = [w EXCEPT ![s] = Entered(s, Head(w[s].todo), objs2, w[s].cur, <<>>)]
    /\ UNCHANGED <<conf, mws, mux, workers, urls, hits, nextId, started, quota, tx>>

\* staticUserMiddleware: next gets a copy of the request whose context has the user
StaticUserMiddlewareCall(s) ==
    /\ NextLayerIs(s, "staticUserMiddleware")
    /\ LET o == [Cur(s) EXCEPT !.ctx.user = UserVal(Head(w[s].todo).arg)]
           nr == WithContext(w[s].objs, w[s].cur, o)
       IN  w' = [w EXCEPT ![s] = Entered(s, Head(w[s].todo), nr.objs, nr.cur, <<>>)]
    /\ UNCHANGED <<conf, mws, mux, workers, urls, hits, nextId, started, quota, tx>>

\* remoteUserMiddleware: the user is the value of the header ("" when absent)
RemoteUserMiddlewareCall(s) ==
    /\ NextLayerIs(s, "remoteUserMiddleware")
    /\ LET user == IF Head(w[s].todo).arg = "X-Remote-User" THEN w[s].rq.hUser ELSE ""
           o == [Cur(s) EXCEPT !.ctx.user = UserVal(user)]
           nr == WithContext(w[s].objs, w[s].cur, o)
       IN  w' = [w EXCEPT ![s] = Entered(s, Head(w[s].todo), nr.objs, nr.cur, <<>>)]
    /\ UNCHANGED <<conf, mws, mux, workers, urls, hits, nextId, started, quota, tx>>

\* tx, err := db.BeginTx(ctx, nil)
BeginTx(fault) ==
    IF fault = "begin" THEN [tx |-> NoTx, err |-> ErrBegin] ELSE [tx |-> OpenTx, err |-> ""]

\* mutant: dbMiddleware goes on with the transaction it did not get
beginFailedNever(err) == FALSE

\* if err != nil { panic(err) }
beginFailed(err) == err # ""

\* dbMiddleware, up to the call of next: BeginTx, panic(err) if it fails, defer
\* the recovery, put the transaction into the context of the request passed on
DbMiddlewareBegin(s) ==
    /\ NextLayerIs(s, "dbMiddleware")
    /\ LET b == BeginTx(w[s].rq.fault)
       IN  IF beginFailed(b.err)
           THEN /\ w' = [w EXCEPT ![s] =
                           [@ EXCEPT !.todo = Tail(@),
                                     !.pan = PanicErr(b.err),
                                     !.pc = IF w[s].stack = <<>> THEN "crashed" ELSE "panic",
                                     !.ev = @ \o <<Ev("enter", "dbMiddleware", ""),
                                                   Ev("BeginTx", "dbMiddleware", b.err),
                                                   Ev("exit", "dbMiddleware", "panic")>>]]
                /\ tx' = tx
           ELSE /\ LET o == [Cur(s) EXCEPT !.ctx.tx = TRUE]
                       nr == WithContext(w[s].objs, w[s].cur, o)
                   IN  w' = [w EXCEPT ![s] =
                               Entered(s, Head(w[s].todo), nr.objs, nr.cur,
                                       <<Ev("BeginTx", "dbMiddleware", b.err)>>)]
                /\ tx' = [tx EXCEPT ![TxOf(s)] = b.tx]
    /\ UNCHANGED <<conf, mws, mux, workers, urls, hits, nextId, started, quota>>

\* withError: call the error-returning handler
WithErrorCall(s) ==
    /\ NextLayerIs(s, "withError")
    /\ w' = [w EXCEPT ![s] =
               [Entered(s, Head(w[s].todo), w[s].objs, w[s].cur, <<>>)
                  EXCEPT !.pc = Head(w[s].todo).arg]]
    /\ UNCHANGED <<conf, mws, mux, workers, urls, hits, nextId, started, quota, tx>>

\* a handler returns err to withError
Returns(rec, err, evs) == [rec EXCEPT !.pc = "withErrorRet", !.err = err, !.ev = @ \o evs]

\* a handler panics with value v
Panics(rec, v) == [rec EXCEPT !.pc = "panic", !.pan = v,
                              !.ev = @ \o <<Ev("panic", rec.rq.route, v.msg)>>]

\* mutant: a handler that finds no user in its context goes on as if all was well
panicNoUserReturnsNil(rec) == Returns(rec, NoErr, <<>>)

\* user, ok := ctx.Value(userKey).(string); if !ok { panic("no user") }
panicNoUser(rec) == Panics(rec, PanicStr("no user"))

\* mutant: deleteHandler rolls back and forgets to return
RejectsFallsThrough(s, rec, t, he, evs) ==
    LET rb == Rollback(t, rec.rq.fault)
        e2 == evs \o <<Ev("Rollback", rec.rq.route, rb.err)>>
    IN  [tx |-> rb.tx,
         w |-> IF rec.rq.route = "deleteHandler" /\ rec.rq.name \in Names
               THEN [rec EXCEPT !.pc = "deleteRemove", !.ev = @ \o e2]
               ELSE Returns(rec, he, e2)]

\* mutant: the rejection branch commits where it should roll back
RejectsCommits(s, rec, t, he, evs) ==
    LET c == Commit(t, rec.rq.fault)
        e2 == evs \o <<Ev("Commit", rec.rq.route, c.err)>>
    IN  [tx |-> c.tx,
         w |-> IF c.err # "" THEN Returns(rec, WrapRollback(PlainError(c.err)), e2)
               ELSE Returns(rec, he, e2)]

\* mutant: the rejection branch returns its error without rolling back
RejectsNoRollback(s, rec, t, he, evs) ==
    [tx |-> t, w |-> Returns(rec, he, evs)]

\* the rejection branch of a handler: tx.Rollback(), then the HTTP error he
\*   if er := tx.Rollback(); er != nil { return fmt.Errorf(...) }; return &HTTPError{...}
Rejects(s, rec, t, he, evs) ==
    LET rb == Rollback(t, rec.rq.fault)
        e2 == evs \o <<Ev("Rollback", rec.rq.route, rb.err)>>
    IN  [tx |-> rb.tx,
         w |-> IF rb.err # "" THEN Returns(rec, WrapRollback(PlainError(rb.err)), e2)
               ELSE Returns(rec, he, e2)]

\* a column without a value
Null == [null |-> TRUE]

\* mutant: an empty Referer header is stored as an empty string
referrerOfAlways(referer) == [null |-> FALSE, v |-> referer]

\* var referrer *string; if referer != "" { referrer = &referer }
referrerOf(referer) == IF referer # "" THEN [null |-> FALSE, v |-> referer] ELSE Null

\* redirHandler up to the first return or to addHit: the transaction from the
\* context, getURLnID, the rejection of an unknown name, the 301, parseIP
RedirHandler(s) ==
    /\ s \in workers
    /\ w[s].pc = "redirHandler"
    /\ Cur(s).ctx.tx => ~(urls[w[s].rq.name] # NoRow /\ Blocked(s, w[s].rq.name))
    /\ IF ~Cur(s).ctx.tx
       THEN /\ w' = [w EXCEPT ![s] = Panics(w[s], PanicStr("no tx"))]
            /\ tx' = tx
       ELSE LET g == getURLnID(tx[TxOf(s)], urls, w[s].rq.name, w[s].rq.fault)
                e1 == <<Ev("getURLnID", "redirHandler", g.err)>>
            IN  IF g.err = ErrNoRows
                THEN LET rj == Rejects(s, w[s], g.tx, HTTPError(StatusNotFound, "", ""), e1)
                     IN  /\ w' = [w EXCEPT ![s] = rj.w]
                         /\ tx' = [tx EXCEPT ![TxOf(s)] = rj.tx]
                ELSE IF g.err # ""
                THEN /\ w' = [w EXCEPT ![s] = Returns(w[s], PlainError(g.err), e1)]
                     /\ tx' = [tx EXCEPT ![TxOf(s)] = g.tx]
                ELSE LET rs == httpRedirect([w[s].resp EXCEPT !.cache = "private, max-age=90"],
                                            g.row.url, StatusMovedPermanently)
                         p == parseIP(Cur(s).addr)
                         rec == [w[s] EXCEPT !.resp = rs, !.lk = g.row, !.ip = p.ip]
                     IN  /\ w' = [w EXCEPT ![s] =
                                    IF ~p.ok THEN Returns(rec, PlainError(ErrInvalidIP), e1)
                                    ELSE [rec EXCEPT !.pc = "redirAddHit", !.ev = @ \o e1]]
                         /\ tx' = [tx EXCEPT ![TxOf(s)] = g.tx]
    /\ UNCHANGED <<conf, mws, mux, workers, urls, hits, nextId, started, quota>>

\* redirHandler from addHit to its end
RedirAddHit(s) ==
    /\ s \in workers
    /\ w[s].pc = "redirAddHit"
    /\ LET a == addHit(tx[TxOf(s)], w[s].lk.id, w[s].ip, w[s].rq.agent,
                       referrerOf(w[s].rq.referer), w[s].rq.fault)
           e1 == <<Ev("addHit", "redirHandler", a.err)>>
       IN  /\ w' = [w EXCEPT ![s] =
                      Returns(w[s], IF a.err # "" THEN PlainError(a.err) ELSE NoErr, e1)]
           /\ tx' = [tx EXCEPT ![TxOf(s)] = a.tx]
    /\ UNCHANGED <<conf, mws, mux, workers, urls, hits, nextId, started, quota>>

\* mutant: deleteHandler without the check of the empty user
missingUserNever(user) == FALSE

\* deleteHandler: if user == ""
missingUser(user) == user = ""

\* mutant: deleteHandler without the comparison of user and owner
notOwnerNever(user, urluser) == FALSE

\* deleteHandler: if user != urluser
notOwner(user, urluser) == user # urluser

\* deleteHandler up to the first return or to removeURL: transaction and user
\* from the context, the empty user, getIDnUser, unknown name, foreign owner
DeleteHandler(s) ==
    /\ s \in workers
    /\ w[s].pc = "deleteHandler"
    /\ IF ~Cur(s).ctx.tx
       THEN /\ w' = [w EXCEPT ![s] = Panics(w[s], PanicStr("no tx"))]
            /\ tx' = tx
       ELSE IF ~Cur(s).ctx.user.set
       THEN /\ w' = [w EXCEPT ![s] = panicNoUser(w[s])]
            /\ tx' = tx
       ELSE IF missingUser(Cur(s).ctx.user.v)
       THEN LET rj == Rejects(s, w[s], tx[TxOf(s)],
                              HTTPError(StatusBadRequest, "", "Missing user"), <<>>)
            IN  /\ w' = [w EXCEPT ![s] = rj.w]
                /\ tx' = [tx EXCEPT ![TxOf(s)] = rj.tx]
       ELSE LET g == getIDnUser(tx[TxOf(s)], urls, w[s].rq.name, w[s].rq.fault)
                e1 == <<Ev("getIDnUser", "deleteHandler", g.err)>>
            IN  IF g.err = ErrNoRows
                THEN LET rj == Rejects(s, w[s], g.tx,
                                       HTTPError(StatusNotFound, ErrNoRows, ""), e1)
                     IN  /\ w' = [w EXCEPT ![s] = rj.w]
                         /\ tx' = [tx EXCEPT ![TxOf(s)] = rj.tx]
                ELSE IF g.err # ""
                THEN /\ w' = [w EXCEPT ![s] = Returns(w[s], PlainError(g.err), e1)]
                     /\ tx' = [tx EXCEPT ![TxOf(s)] = g.tx]
                ELSE IF notOwner(Cur(s).ctx.user.v, g.row.user)
                THEN LET rj == Rejects(s, w[s], g.tx, HTTPError(StatusForbidden, "", ""), e1)
                     IN  /\ w' = [w EXCEPT ![s] = rj.w]
                         /\ tx' = [tx EXCEPT ![TxOf(s)] = rj.tx]
                ELSE /\ w' = [w EXCEPT ![s] =
                                [@ EXCEPT !.pc = "deleteRemove", !.lk = g.row,
                                          !.ev = @ \o e1]]
                     /\ tx' = [tx EXCEPT ![TxOf(s)] = g.tx]
    /\ UNCHANGED <<conf, mws, mux, workers, urls, hits, nextId, started, quota>>

\* deleteHandler from removeURL to its end
DeleteRemove(s) ==
    /\ s \in workers
    /\ w[s].pc = "deleteRemove"
    /\ ~(urls[w[s].rq.name] # NoRow /\ Blocked(s, w[s].rq.name))
    /\ LET d == removeURL(tx[TxOf(s)], urls, w[s].rq.name, w[s].rq.fault)
           e1 == <<Ev("removeURL", "deleteHandler", d.err)>>
       IN  /\ w' = [w EXCEPT ![s] =
                      Returns(w[s], IF d.err # "" THEN PlainError(d.err) ELSE NoErr, e1)]
           /\ tx' = [tx EXCEPT ![TxOf(s)] = d.tx]
    /\ UNCHANGED <<conf, mws, mux, workers, urls, hits, nextId, started, quota>>

\* adminGetHandler: transaction and user from the context, urlsForUser, the page
AdminGetHandler(s) ==
    /\ s \in workers
    /\ w[s].pc = "adminGetHandler"
    /\ IF ~Cur(s).ctx.tx
       THEN /\ w' = [w EXCEPT ![s] = Panics(w[s], PanicStr("no tx"))]
            /\ tx' = tx
       ELSE IF ~Cur(s).ctx.user.set
       THEN /\ w' = [w EXCEPT ![s] = panicNoUser(w[s])]
            /\ tx' = tx
       ELSE LET u == urlsForUser(tx[TxOf(s)], urls, Cur(s).ctx.user.v, w[s].rq.fault)
                e1 == <<Ev("urlsForUser", "adminGetHandler", u.err)>>
            IN  /\ tx' = [tx EXCEPT ![TxOf(s)] = u.tx]
                /\ w' = [w EXCEPT ![s] =
                           IF u.pan # NoPanic
                           THEN Panics([w[s] EXCEPT !.ev = @ \o e1], u.pan)
                           ELSE IF u.err # "" THEN Returns(w[s], PlainError(u.err), e1)
                           ELSE Returns([w[s] EXCEPT !.resp =
                                           Write(@, [page |-> "adminPage",
                                                     user |-> Cur(s).ctx.user.v,
                                                     urls |-> u.urls])],
                                        NoErr, e1)]
    /\ UNCHANGED <<conf, mws, mux, workers, urls, hits, nextId, started, quota>>

\* mutant: the URL is checked before the name
validateAdminFormURLFirst(form) ==
    IF form.url = "" THEN ErrMissingURL
    ELSE IF form.name = "" THEN ErrMissingName
    ELSE IF ~urlParses(form.url) THEN ErrInvalidURL
    ELSE IF form.user = "" THEN ErrMissingUser
    ELSE ""

\* validateAdminForm: the first failing check, in the order name, url, parse, user
validateAdminForm(form) ==
    IF form.name = "" THEN ErrMissingName
    ELSE IF form.url = "" THEN ErrMissingURL
    ELSE IF ~urlParses(form.url) THEN ErrInvalidURL
    ELSE IF form.user = "" THEN ErrMissingUser
    ELSE ""

\* mutant: the mapping is recorded for the user of the context
addURLUserOfContext(form, ctxUser) == ctxUser

\* the user given to addURL is the one validateAdminForm returned, the form
\* field user; the user of the context is looked up and dropped (_, ok = ...)
addURLUser(form, ctxUser) == form.user

\* adminPostHandler: transaction and user from the context, validation and its
\* rejection, addURL, the 303
AdminPostHandler(s) ==
    /\ s \in workers
    /\ w[s].pc = "adminPostHandler"
    /\ (Cur(s).ctx.tx /\ Cur(s).ctx.user.set /\ validateAdminForm(w[s].rq.form) = "")
          => ~Blocked(s, w[s].rq.form.name)
    /\ IF ~Cur(s).ctx.tx
       THEN /\ w' = [w EXCEPT ![s] = Panics(w[s], PanicStr("no tx"))]
            /\ UNCHANGED <<tx, nextId>>
       ELSE IF ~Cur(s).ctx.user.set
       THEN /\ w' = [w EXCEPT ![s] = panicNoUser(w[s])]
            /\ UNCHANGED <<tx, nextId>>
       ELSE LET verr == validateAdminForm(w[s].rq.form)
            IN  IF verr # ""
                THEN LET rj == Rejects(s, w[s], tx[TxOf(s)],
                                       HTTPError(StatusBadRequest, verr, verr), <<>>)
                     IN  /\ w' = [w EXCEPT ![s] = rj.w]
                         /\ tx' = [tx EXCEPT ![TxOf(s)] = rj.tx]
                         /\ nextId' = nextId
                ELSE LET f == w[s].rq.form
                         a == addURL(tx[TxOf(s)], urls, nextId, f.name, f.url,
                                     addURLUser(f, Cur(s).ctx.user.v), w[s].rq.fault)
                         e1 == <<Ev("addURL", "adminPostHandler", a.err)>>
                     IN  /\ tx' = [tx EXCEPT ![TxOf(s)] = a.tx]
                         /\ nextId' = IF a.err \in {"", ErrUnique} THEN nextId + 1
                                      ELSE nextId
                         /\ w' = [w EXCEPT ![s] =
                                    IF a.err # "" THEN Returns(w[s], PlainError(a.err), e1)
                                    ELSE Returns([w[s] EXCEPT !.resp =
                                                    httpRedirect(@, "/_admin", StatusSeeOther)],
                                                 NoErr, e1)]
    /\ UNCHANGED <<conf, mws, mux, workers, urls, hits, started, quota>>

\* the request as the error paths see it: method and URI of the route pattern
\* ("GET /{name}", "DELETE /{name}", "GET /_admin", "POST /_admin") and the
\* remote address of the request value the handler was given
Method(rq) ==
    IF rq.route = "deleteHandler" THEN "DELETE"
    ELSE IF rq.route = "adminPostHandler" THEN "POST" ELSE "GET"

RequestURI(rq) ==
    IF rq.route \in {"redirHandler", "deleteHandler"} THEN <<"/", rq.name>>
    ELSE <<"/", "_admin">>

ReqOf(s) == [method |-> Method(w[s].rq), url |-> RequestURI(w[s].rq), addr |-> Cur(s).addr]

\* slog.Error("error", slog.Int("status", code), slog.Any("err", err))
handleErrorLog(err, code) == [status |-> code, err |-> err]

\* mutant: the entry of an HTTP error leaves out the remote address
HTTPErrorLogNoRemote(r, e) ==
    [method |-> r.method, url |-> r.url, status |-> e.code,
     message |-> polish(e).msg, err |-> e.err]

\* slog.Error("error", method, url, status, remote, message, err) of
\* HTTPError.ServeHTTP, after polish
HTTPErrorLog(r, e) ==
    [method |-> r.method, url |-> r.url, status |-> e.code, remote |-> r.addr,
     message |-> polish(e).msg, err |-> e.err]

\* what withError writes to the error log for the error its handler returned
withErrorLog(r, err) ==
    IF err = NoErr THEN <<>>
    ELSE IF err.kind = "http" THEN <<HTTPErrorLog(r, err)>>
    ELSE <<handleErrorLog(err, StatusInternalServerError)>>

\* the error panicMiddleware makes of the recovered value: the value itself if
\* it is an error, else fmt.Errorf("%w: %s", ErrUnknown, t)
RecoveredErr(r) ==
    IF r.kind = "error" THEN PlainError(r.msg)
    ELSE [kind |-> "error", msg |-> ErrUnknown, cause |-> r.msg]

\* mutant: every error is answered as an error without a status of its own
withErrorRenderAll500(rs, err) ==
    IF err = NoErr THEN rs
    ELSE handleError(rs, err.msg, StatusInternalServerError)

\* withError after the handler has returned: nothing for nil, the error's own
\* ServeHTTP if it is an http.Handler, else handleError with 500
withErrorRender(rs, err) ==
    IF err = NoErr THEN rs
    ELSE IF err.kind = "http" THEN HTTPErrorServeHTTP(rs, err)
    ELSE handleError(rs, err.msg, StatusInternalServerError)

WithErrorReturn(s) ==
    /\ s \in workers
    /\ w[s].pc = "withErrorRet"
    /\ LET err == w[s].err
           rs == withErrorRender(w[s].resp, err)
           evs == IF err = NoErr THEN <<>>
                  ELSE IF err.kind = "http" THEN <<Ev("log", "HTTPError", err.err)>>
                  ELSE <<Ev("log", "handleError", err.msg)>>
       IN  w' = [w EXCEPT ![s] = Left(s, [w[s] EXCEPT !.resp = rs, !.ev = @ \o evs,
                                                      !.log = @ \o withErrorLog(ReqOf(s), err)],
                                      "ret")]
    /\ UNCHANGED <<conf, mws, mux, workers, urls, hits, nextId, started, quota, tx>>

\* a layer with nothing to do after next has returned: panicMiddleware (its
\* deferred recover() yields nil), realIPMiddleware and the user middlewares
PassReturn(s) ==
    /\ \E k \in {"panicMiddleware", "realIPMiddleware", "staticUserMiddleware",
                 "remoteUserMiddleware"} : TopLayerIs(s, "ret", k)
    /\ w' = [w EXCEPT ![s] = Left(s, w[s], "ret")]
    /\ UNCHANGED <<conf, mws, mux, workers, urls, hits, nextId, started, quota, tx>>

\* loggerMiddleware after next has returned: one "req" log entry
LoggerMiddlewareReturn(s) ==
    /\ TopLayerIs(s, "ret", "loggerMiddleware")
    /\ w' = [w EXCEPT ![s] =
               Left(s, [w[s] EXCEPT !.ev = Append(@, Ev("log", "loggerMiddleware", ""))],
                    "ret")]
    /\ UNCHANGED <<conf, mws, mux, workers, urls, hits, nextId, started, quota, tx>>

\* mutant: dbMiddleware returns without a call of Commit
dbCommitSkipped(t, fault) == [tx |-> t, call |-> "return", err |-> "", pan |-> NoPanic]

\* mutant: dbMiddleware rolls back where it should commit
dbCommitRollsBack(t, fault) ==
    LET c == Rollback(t, fault)
    IN  [tx |-> c.tx, call |-> "Rollback", err |-> c.err,
         pan |-> IF c.err # "" /\ c.err # ErrTxDone THEN PanicErr(c.err) ELSE NoPanic]

\* mutant: dbMiddleware drops the error of Commit
dbCommitIgnoresError(t, fault) ==
    LET c == Commit(t, fault)
    IN  [tx |-> c.tx, call |-> "Commit", err |-> c.err, pan |-> NoPanic]

\* dbMiddleware after next has returned:
\*   err = tx.Commit(); if err != nil && !errors.Is(err, sql.ErrTxDone) { panic(err) }
dbCommit(t, fault) ==
    LET c == Commit(t, fault)
    IN  [tx |-> c.tx, call |-> "Commit", err |-> c.err,
         pan |-> IF c.err # "" /\ c.err # ErrTxDone THEN PanicErr(c.err) ELSE NoPanic]

\* dbMiddleware after next has returned; a panic raised here is still inside
\* the function whose deferred recovery is armed
DbMiddlewareCommit(s) ==
    /\ TopLayerIs(s, "ret", "dbMiddleware")
    /\ LET c == dbCommit(tx[TxOf(s)], w[s].rq.fault)
           rec == [w[s] EXCEPT !.ev = Append(@, Ev(c.call, "dbMiddleware", c.err)),
                               !.cc = w[s].resp.code]
       IN  /\ tx' = [tx EXCEPT ![TxOf(s)] = c.tx]
           /\ IF c.tx.st = "committed" /\ tx[TxOf(s)].st # "committed"
              THEN /\ urls' = CommittedUrls(tx[TxOf(s)], urls)
                   /\ hits' = CommittedHits(tx[TxOf(s)], urls, hits)
              ELSE UNCHANGED <<urls, hits>>
           /\ w' = [w EXCEPT ![s] =
                      IF c.pan # NoPanic
                      THEN [rec EXCEPT !.pc = "panic", !.pan = c.pan,
                                       !.ev = Append(@, Ev("panic", "dbMiddleware", c.pan.msg))]
                      ELSE Left(s, rec, "ret")]
    /\ UNCHANGED <<conf, mws, mux, workers, nextId, started, quota>>

\* mutant: the deferred function re-raises the panic without rolling back
dbDeferredNoRollback(t, r, fault) ==
    [tx |-> t, call |-> "recover", err |-> "", pan |-> r]

\* mutant: the deferred function re-raises the original panic whatever
\* Rollback returned
dbDeferredDropsRollbackError(t, r, fault) ==
    LET rb == Rollback(t, fault)
    IN  [tx |-> rb.tx, call |-> "Rollback", err |-> rb.err, pan |-> r]

\* the deferred function of dbMiddleware, r := recover() not nil:
\*   err = tx.Rollback(); if err != nil { panic(err) }; panic(r)
dbDeferred(t, r, fault) ==
    LET rb == Rollback(t, fault)
    IN  [tx |-> rb.tx, call |-> "Rollback", err |-> rb.err,
         pan |-> IF rb.err # "" THEN PanicErr(rb.err) ELSE r]

\* the deferred function of dbMiddleware with a panic in flight
DbMiddlewareRecover(s) ==
    /\ TopLayerIs(s, "panic", "dbMiddleware")
    /\ LET rb == dbDeferred(tx[TxOf(s)], w[s].pan, w[s].rq.fault)
           rec == [w[s] EXCEPT !.pan = rb.pan,
                               !.ev = @ \o <<Ev("recover", "dbMiddleware", w[s].pan.msg),
                                             Ev(rb.call, "dbMiddleware", rb.err),
                                             Ev("panic", "dbMiddleware", rb.pan.msg)>>]
       IN  /\ tx' = [tx EXCEPT ![TxOf(s)] = rb.tx]
           /\ w' = [w EXCEPT ![s] = Left(s, rec, "panic")]
    /\ UNCHANGED <<conf, mws, mux, workers, urls, hits, nextId, started, quota>>

\* mutant: panicMiddleware recovers and writes nothing
panicRecoveredSilently(rs, r) ==
    [resp |-> rs,
     err |-> IF r.kind = "error" THEN r.msg ELSE ErrUnknown,
     pan |-> NoPanic]

\* the deferred function of panicMiddleware with a panic in flight: the value
\* is an error or is wrapped into ErrUnknown; handleError with 500
panicRecovered(rs, r) ==
    [resp |-> handleError(rs, IF r.kind = "error" THEN r.msg ELSE ErrUnknown,
                          StatusInternalServerError),
     err |-> IF r.kind = "error" THEN r.msg ELSE ErrUnknown,
     pan |-> NoPanic]

PanicMiddlewareRecover(s) ==
    /\ TopLayerIs(s, "panic", "panicMiddleware")
    /\ LET pr == panicRecovered(w[s].resp, w[s].pan)
           err == pr.err
           rec == [w[s] EXCEPT !.pan = pr.pan,
                               !.resp = pr.resp,
                               !.log = Append(@, handleErrorLog(RecoveredErr(w[s].pan),
                                                                StatusInternalServerError)),
                               !.ev = @ \o <<Ev("recover", "panicMiddleware", w[s].pan.msg),
                                             Ev("log", "handleError", err)>>]
       IN  w' = [w EXCEPT ![s] = Left(s, rec, "ret")]
    /\ UNCHANGED <<conf, mws, mux, workers, urls, hits, nextId, started, quota, tx>>

\* a panic passes through a layer that has no deferred function
PassPanic(s) ==
    /\ \E k \in {"withError", "loggerMiddleware", "realIPMiddleware",
                 "staticUserMiddleware", "remoteUserMiddleware"} : TopLayerIs(s, "panic", k)
    /\ w' = [w EXCEPT ![s] = Left(s, w[s], "panic")]
    /\ UNCHANGED <<conf, mws, mux, workers, urls, hits, nextId, started, quota, tx>>

\* the client of the request goes away while the transaction is in progress:
\* net/http cancels r.Context(), the context dbMiddleware gave to BeginTx
\* (followed for the requests whose store operations all work)
Cancel(s) ==
    /\ s \in workers
    /\ w[s].rq.fault = "none"
    /\ tx[TxOf(s)].st \in {"open", "failed"}
    /\ tx' = [tx EXCEPT ![TxOf(s)].st = "canceled"]
    /\ w' = [w EXCEPT ![s].ev = Append(@, Ev("cancel", "client", ""))]
    /\ UNCHANGED <<conf, mws, mux, workers, urls, hits, nextId, started, quota>>

\* the goroutine database/sql starts in BeginTx sees the context done and
\* rolls the transaction back
AwaitDone(s) ==
    /\ s \in workers
    /\ Canceled(tx[TxOf(s)])
    /\ tx' = [tx EXCEPT ![TxOf(s)].st = "rolledback"]
    /\ w' = [w EXCEPT ![s].ev = Append(@, Ev("awaitDone", "sql.Tx", ""))]
    /\ UNCHANGED <<conf, mws, mux, workers, urls, hits, nextId, started, quota>>

\* the response has gone out (or the server has dropped the connection after a
\* panic nothing recovered); the worker is free again
Finish(s) ==
    /\ s \in workers
    /\ w[s].pc \in {"done", "crashed"}
    /\ w' = [w EXCEPT ![s] = IdleW]
    /\ tx' = [tx EXCEPT ![s] = NoTx]
    /\ UNCHANGED <<conf, mws, mux, workers, urls, hits, nextId, started, quota>>

Next ==
    \E s \in Slots :
        \/ Start(s)
        \/ PanicMiddlewareCall(s)
        \/ LoggerMiddlewareCall(s)
        \/ RealIPMiddlewareCall(s)
        \/ StaticUserMiddlewareCall(s)
        \/ RemoteUserMiddlewareCall(s)
        \/ DbMiddlewareBegin(s)
        \/ WithErrorCall(s)
        \/ RedirHandler(s)
        \/ RedirAddHit(s)
        \/ DeleteHandler(s)
        \/ DeleteRemove(s)
        \/ AdminGetHandler(s)
        \/ AdminPostHandler(s)
        \/ WithErrorReturn(s)
        \/ PassReturn(s)
        \/ LoggerMiddlewareReturn(s)
        \/ DbMiddlewareCommit(s)
        \/ DbMiddlewareRecover(s)
        \/ PanicMiddlewareRecover(s)
        \/ PassPanic(s)
        \/ Finish(s)

Spec == Init /\ [][Next]_vars

SpecChain == InitChain /\ [][Next]_vars

SpecConc == InitConc /\ [][Next]_vars

SpecErr == InitErr /\ [][Next]_vars

\* the service with clients that go away while their request is served
NextGone == Next \/ \E s \in Slots : (Cancel(s) \/ AwaitDone(s))

SpecGone == InitGone /\ [][NextGone]_vars

\* ---------------------------------------------------------------- properties
Over(s) == w[s].pc \in {"done", "crashed"}

EvIdx(s) == DOMAIN w[s].ev

\* positions of the events e of layer l in the request of worker s
At(s, e, l) == {i \in EvIdx(s) : w[s].ev[i].e = e /\ w[s].ev[i].l = l}

\* positions of the calls e on the transaction, whoever makes them
Calls(s, e) == {i \in EvIdx(s) : w[s].ev[i].e = e}

RowOps == {"getURLnID", "getIDnUser", "addHit", "addURL", "removeURL", "urlsForUser"}

\* positions where the deferred function of dbMiddleware recovered a panic of
\* its inner call (and not the panic of its own failed Commit)
InnerPanics(s) ==
    {i \in At(s, "recover", "dbMiddleware") :
        ~(i > 1 /\ w[s].ev[i - 1].e = "panic" /\ w[s].ev[i - 1].l = "dbMiddleware")}

\* panicMiddleware was entered before dbMiddleware
PanicAroundDb(s) ==
    \E i \in At(s, "enter", "panicMiddleware") :
        \E j \in At(s, "enter", "dbMiddleware") : i < j

ISE == StatusText(StatusInternalServerError)

\* C1: a request whose handler chain panicked inside dbMiddleware, under a
\* panicMiddleware, ends with Rollback called on its transaction and Commit
\* never called, the transaction rolled back (or dead, when the Rollback call
\* itself failed), status 500, and the committed tables as they were when the
\* request arrived.
C1_PanicRollsBack ==
    \A s \in workers :
        (Over(s) /\ InnerPanics(s) # {} /\ PanicAroundDb(s)) =>
            /\ At(s, "Rollback", "dbMiddleware") # {}
            /\ Calls(s, "Commit") = {}
            /\ tx[s].st \in {"rolledback", "broken"}
            /\ tx[s].st = "broken" => w[s].rq.fault = "rollback"
            /\ w[s].pc = "done"
            /\ w[s].resp.code = StatusInternalServerError
            /\ urls = w[s].pre.urls
            /\ hits = w[s].pre.hits

C1_Witness ==
    \E s \in workers :
        /\ w[s].pc = "done"
        /\ InnerPanics(s) # {}
        /\ PanicAroundDb(s)
        /\ tx[s].st = "rolledback"
        /\ w[s].resp.code = StatusInternalServerError

\* C2: when the deferred function of dbMiddleware runs for a panic of the
\* inner call, it calls Rollback in that step, before the panic goes on; the
\* value that goes on is the original one if Rollback succeeded and the
\* rollback error if it failed.
C2_RollbackThenRepanic ==
    [][\A s \in workers :
          (TopLayerIs(s, "panic", "dbMiddleware")
             /\ ~(w[s].ev[Len(w[s].ev)].e = "panic" /\ w[s].ev[Len(w[s].ev)].l = "dbMiddleware")
             /\ w'[s] # w[s]) =>
              /\ tx[s].st \in {"open", "failed"}
              /\ tx'[s].st \in {"rolledback", "broken"}
              /\ w'[s].pc \in {"panic", "crashed"}
              /\ tx'[s].st = "rolledback" => w'[s].pan = w[s].pan
              /\ tx'[s].st = "broken" => w'[s].pan = PanicErr(ErrRollback)]_vars

C2_Witness ==
    \E s \in workers :
        /\ InnerPanics(s) # {}
        /\ tx[s].st = "broken"
        /\ w[s].pc = "panic"
        /\ w[s].pan = PanicErr(ErrRollback)

\* the composed handler of the request of worker s, and the layer under dbMiddleware
Handler(s) == mux[w[s].rq.route]

DbPos(h) == {i \in 1..Len(h) : h[i].kind = "dbMiddleware"}

\* positions where the inner call of dbMiddleware returned without a panic
InnerReturns(s) ==
    {i \in EvIdx(s) : /\ w[s].ev[i].e = "exit"
                      /\ w[s].ev[i].res = "ret"
                      /\ \E d \in DbPos(Handler(s)) :
                            w[s].ev[i].l = Handler(s)[d + 1].kind}

\* positions of Commit and Rollback calls made by a handler
HandlerCloses(s) ==
    {i \in Calls(s, "Commit") \cup Calls(s, "Rollback") : w[s].ev[i].l # "dbMiddleware"}

\* what transaction t has written is what the committed tables hold
Visible(t) ==
    /\ \A n \in Names : t.w[n] # Untouched => urls[n] = t.w[n]
    /\ \A i \in DOMAIN t.h :
          (\E n \in Names : urls[n] # NoRow /\ urls[n].id = t.h[i].url_id)
             => \E j \in DOMAIN hits : hits[j] = t.h[i]

\* C3: once the inner chain of dbMiddleware has returned without a panic with
\* the transaction still open, dbMiddleware calls Commit, exactly once and
\* after that return, and nobody else does; when that Commit succeeds the
\* transaction is committed and what it wrote is in the committed tables,
\* where the next request reads it; when it fails nothing of it is there.
C3_CommitOnNormalReturn ==
    \A s \in workers :
        /\ \A c \in Calls(s, "Commit") : \E i \in InnerReturns(s) : i < c
        /\ (InnerReturns(s) # {} /\ HandlerCloses(s) = {}) =>
              /\ TopLayerIs(s, "ret", "dbMiddleware") \/ Cardinality(Calls(s, "Commit")) = 1
              /\ Calls(s, "Commit") = At(s, "Commit", "dbMiddleware")
              /\ \A c \in Calls(s, "Commit") :
                    w[s].ev[c].res = "" => (tx[s].st = "committed" /\ Visible(tx[s]))
              /\ \A c \in Calls(s, "Commit") :
                    w[s].ev[c].res # "" =>
                        /\ tx[s].st \in {"rolledback", "broken"}
                        /\ urls = w[s].pre.urls /\ hits = w[s].pre.hits

\* a request has added baz and committed; the next request redirects baz
C3_Witness ==
    \E s \in workers :
        /\ started = 2
        /\ w[s].pc = "done"
        /\ w[s].rq.route = "redirHandler"
        /\ w[s].rq.name = "baz"
        /\ w[s].pre.urls["baz"] # NoRow
        /\ w[s].lk = w[s].pre.urls["baz"]
        /\ \E c \in At(s, "Commit", "dbMiddleware") : w[s].ev[c].res = ""
        /\ urls["baz"].hits = 1

\* positions of the Commit calls that failed with something else than ErrTxDone
FailedCommits(s) ==
    {c \in Calls(s, "Commit") : w[s].ev[c].res \notin {"", ErrTxDone}}

\* C4 as stated: a failed Commit always ends in status 500.
C4_Original ==
    \A s \in workers :
        (Over(s) /\ FailedCommits(s) # {}) =>
            /\ At(s, "recover", "panicMiddleware") # {}
            /\ w[s].resp.code = StatusInternalServerError

\* C4 amended: a failed Commit goes outward as a panic that panicMiddleware
\* recovers, and the reason phrase of 500 ends the body; the status is 500
\* when no status had been written before Commit was called, otherwise it
\* stays the status written before.
C4_CommitFailurePanics ==
    \A s \in workers :
        (Over(s) /\ FailedCommits(s) # {}) =>
            /\ w[s].pc = "done"
            /\ At(s, "recover", "panicMiddleware") # {}
            /\ w[s].resp.body # <<>>
            /\ w[s].resp.body[Len(w[s].resp.body)] = ISE
            /\ w[s].cc = 0 => w[s].resp.code = StatusInternalServerError
            /\ w[s].cc # 0 => w[s].resp.code = w[s].cc

C4_Witness ==
    \E s \in workers :
        /\ w[s].pc = "done"
        /\ FailedCommits(s) # {}
        /\ w[s].cc = StatusOK
        /\ w[s].resp.code = StatusOK
        /\ w[s].resp.body[Len(w[s].resp.body)] = ISE

\* the user in the context the handler of worker s got
CtxUser(s) == w[s].objs[Len(w[s].objs)].ctx.user

\* the status of the rejection the request of worker s runs into (0: none),
\* from the request and the tables as they were when it arrived
RejectStatus(s) ==
    LET rq == w[s].rq
        row == w[s].pre.urls[rq.name]
    IN  CASE rq.route = "redirHandler" /\ rq.fault # "stmt" /\ row = NoRow -> StatusNotFound
          [] rq.route = "deleteHandler" /\ CtxUser(s).v = "" -> StatusBadRequest
          [] rq.route = "deleteHandler" /\ CtxUser(s).v # "" /\ rq.fault # "stmt"
               /\ row = NoRow -> StatusNotFound
          [] rq.route = "deleteHandler" /\ CtxUser(s).v # "" /\ rq.fault # "stmt"
               /\ row # NoRow /\ row.user # CtxUser(s).v -> StatusForbidden
          [] rq.route = "adminPostHandler" /\ validateAdminForm(rq.form) # "" -> StatusBadRequest
          [] OTHER -> 0

\* the handler of worker s was called and its request is over
Handled(s) == Over(s) /\ At(s, "enter", "withError") # {}

\* C5 as stated: every rejection ends in its own status, never in 500.
C5_Original ==
    \A s \in workers :
        (Handled(s) /\ RejectStatus(s) # 0) => w[s].resp.code = RejectStatus(s)

\* C5 amended: on every rejection branch the handler calls Rollback once,
\* after its last row operation and before it returns; the Commit of
\* dbMiddleware then reports ErrTxDone and raises no panic; the status is that
\* of the rejection when Rollback succeeded and 500 when Rollback failed.
C5_RejectionRollsBack ==
    \A s \in workers :
        (Handled(s) /\ RejectStatus(s) # 0) =>
            /\ Cardinality(At(s, "Rollback", w[s].rq.route)) = 1
            /\ \A r \in At(s, "Rollback", w[s].rq.route) :
                  /\ \A i \in EvIdx(s) : w[s].ev[i].e \in RowOps => i < r
                  /\ \A x \in At(s, "exit", "withError") : r < x
                  /\ w[s].ev[r].res = "" => w[s].resp.code = RejectStatus(s)
                  /\ w[s].ev[r].res # "" => w[s].resp.code = StatusInternalServerError
            /\ Cardinality(Calls(s, "Commit")) = 1
            /\ \A c \in Calls(s, "Commit") : w[s].ev[c].res = ErrTxDone
            /\ At(s, "recover", "panicMiddleware") = {}
            /\ w[s].pc = "done"

C5_Witness ==
    \E s \in workers :
        /\ Handled(s)
        /\ RejectStatus(s) = StatusForbidden
        /\ w[s].resp.code = StatusForbidden
        /\ tx[s].st = "rolledback"
        /\ \E c \in Calls(s, "Commit") : w[s].ev[c].res = ErrTxDone

\* positions of the Commit and Rollback calls in ev that returned nil
Closings(ev) ==
    {i \in DOMAIN ev : ev[i].e \in {"Commit", "Rollback"} /\ ev[i].res = ""}

\* C6: a transaction that has reached a terminal state keeps it until the
\* request is over and the handle is dropped; at most one Commit or Rollback
\* per transaction succeeds, and no row operation follows one that did.
C6_TerminalOnce ==
    [][\A s \in workers :
          /\ TxDone(tx[s]) =>
                \/ tx'[s] = tx[s]
                \/ Over(s) /\ tx'[s] = NoTx
          /\ Cardinality(Closings(w'[s].ev)) <= 1
          /\ \A i \in Closings(w'[s].ev) :
                \A j \in DOMAIN w'[s].ev : w'[s].ev[j].e \in RowOps => j < i
          /\ TxDone(tx[s]) =>
                \A j \in DOMAIN w'[s].ev :
                    (j > Len(w[s].ev) /\ w'[s].pc # "idle") => w'[s].ev[j].e \notin RowOps
      ]_vars

\* a handler has rolled back and the Commit of dbMiddleware was refused
C6_Witness ==
    \E s \in workers :
        /\ tx[s].st = "rolledback"
        /\ \E r \in At(s, "Rollback", "deleteHandler") : w[s].ev[r].res = ""
        /\ \E c \in At(s, "Commit", "dbMiddleware") : w[s].ev[c].res = ErrTxDone

\* C7 as stated: no handler calls Commit or Rollback.
C7_Original == \A s \in workers : HandlerCloses(s) = {}

\* C7 amended: Commit is called by dbMiddleware only; a handler calls Rollback
\* on its rejection branches and nowhere else; every transaction dbMiddleware
\* has opened gets a Commit or a Rollback call from dbMiddleware.
C7_OnlyDbMiddlewareCommits ==
    \A s \in workers :
        /\ Calls(s, "Commit") = At(s, "Commit", "dbMiddleware")
        /\ \A r \in Calls(s, "Rollback") :
              \/ w[s].ev[r].l = "dbMiddleware"
              \/ /\ w[s].ev[r].l = w[s].rq.route
                 /\ RejectStatus(s) # 0
        /\ (At(s, "enter", "withError") # {} /\ RejectStatus(s) = 0) => HandlerCloses(s) = {}
        /\ (Over(s) /\ \E b \in At(s, "BeginTx", "dbMiddleware") : w[s].ev[b].res = "") =>
              At(s, "Commit", "dbMiddleware") \cup At(s, "Rollback", "dbMiddleware") # {}

C7_Witness ==
    \E s \in workers :
        /\ w[s].rq.route = "adminPostHandler"
        /\ At(s, "Rollback", "adminPostHandler") # {}
        /\ At(s, "Commit", "dbMiddleware") # {}
        /\ w[s].resp.code = StatusBadRequest

\* the layers of the events e of ev, in order
RECURSIVE LayersOf(_, _)
LayersOf(ev, e) ==
    IF ev = <<>> THEN <<>>
    ELSE (IF Head(ev).e = e THEN <<Head(ev).l>> ELSE <<>>) \o LayersOf(Tail(ev), e)

IsPrefix(a, b) == Len(a) <= Len(b) /\ \A i \in 1..Len(a) : a[i] = b[i]

\* layers are left in the reverse of the order they were entered in
Nested(ent, ex) ==
    /\ Len(ex) <= Len(ent)
    /\ \A j \in 1..Len(ex) : ex[j] = ent[Len(ent) - j + 1]

\* C8: the handler chain.apply builds from [m1, ..., mn] and H enters m1 first
\* and H last and leaves them in the reverse order, m1 last; for the empty
\* chain it is H.
C8_ApplyOrder ==
    \A s \in workers :
        w[s].pc # "idle" =>
            LET full == [i \in 1..Len(mws) |-> mws[i].kind] \o <<"withError">>
                ent == LayersOf(w[s].ev, "enter")
                ex == LayersOf(w[s].ev, "exit")
            IN  /\ IsPrefix(ent, full)
                /\ Nested(ent, ex)
                /\ Over(s) => Len(ex) = Len(ent)
                /\ w[s].pc = w[s].rq.route => ent = full
                /\ mws = <<>> => mux[w[s].rq.route] = withError(w[s].rq.route)

C8_Witness ==
    \E s \in workers :
        /\ Over(s)
        /\ Len(mws) = MaxChain
        /\ Len(LayersOf(w[s].ev, "enter")) = MaxChain + 1
        /\ Len(LayersOf(w[s].ev, "exit")) = MaxChain + 1

\* the order of section "middleware chain" for configuration cf
ProductionOrder(cf) ==
    <<"panicMiddleware", "loggerMiddleware", "dbMiddleware">>
       \o (IF cf.RealIPHeader # "" THEN <<"realIPMiddleware">> ELSE <<>>)
       \o (IF cf.RemoteUserHeader # "" THEN <<"remoteUserMiddleware">>
           ELSE <<"staticUserMiddleware">>)
       \o <<"withError">>

\* positions of the panics raised under dbMiddleware
PanicsBelowDb(s) == {p \in Calls(s, "panic") : w[s].ev[p].l # "dbMiddleware"}

\* C9: on every route the layers are entered in the order panicMiddleware,
\* loggerMiddleware, dbMiddleware, realIPMiddleware (only with a real-IP
\* header configured), the user middleware, the handler; after a panic under
\* dbMiddleware the Rollback of dbMiddleware comes before panicMiddleware
\* recovers and writes the 500.
C9_ProductionOrder ==
    \A s \in workers :
        w[s].pc # "idle" =>
            LET ent == LayersOf(w[s].ev, "enter")
            IN  /\ IsPrefix(ent, ProductionOrder(conf))
                /\ w[s].pc = w[s].rq.route => ent = ProductionOrder(conf)
                /\ \A p \in PanicsBelowDb(s) :
                      /\ \A g \in At(s, "recover", "panicMiddleware") :
                            \E r \in At(s, "Rollback", "dbMiddleware") : p < r /\ r < g
                      /\ Over(s) =>
                            /\ At(s, "recover", "panicMiddleware") # {}
                            /\ w[s].resp.code = StatusInternalServerError

C9_Witness ==
    \E s \in workers :
        /\ Over(s)
        /\ conf.RealIPHeader # ""
        /\ PanicsBelowDb(s) # {}
        /\ \E r \in At(s, "Rollback", "dbMiddleware") :
              \E g \in At(s, "recover", "panicMiddleware") : r < g
        /\ w[s].resp.body = <<ISE>>

\* C10 as stated: after panicMiddleware has recovered the response is 500 with
\* the reason phrase as its body.
C10_Original ==
    [][\A s \in workers :
          (TopLayerIs(s, "panic", "panicMiddleware") /\ w'[s] # w[s]) =>
              /\ w'[s].resp.code = StatusInternalServerError
              /\ w'[s].resp.body = <<ISE>>
      ]_vars

\* C10 amended: panicMiddleware stops every panic that reaches it and returns
\* normally; it appends the reason phrase of 500 to the body, with status 500
\* unless a status had been written before, which then stays; when its inner
\* call returns without a panic it leaves the response as it is.
C10_PanicMiddleware ==
    [][\A s \in workers :
          /\ (TopLayerIs(s, "panic", "panicMiddleware") /\ w'[s] # w[s]) =>
                /\ w'[s].pan = NoPanic
                /\ w'[s].pc \in {"ret", "done"}
                /\ w'[s].resp.body = Append(w[s].resp.body, ISE)
                /\ w[s].resp.code = 0 => w'[s].resp.code = StatusInternalServerError
                /\ w[s].resp.code # 0 => w'[s].resp.code = w[s].resp.code
          /\ (TopLayerIs(s, "ret", "panicMiddleware") /\ w'[s] # w[s]) =>
                /\ w'[s].resp = w[s].resp
                /\ w'[s].pc \in {"ret", "done"}
      ]_vars

C10_Witness ==
    \E s \in workers :
        /\ At(s, "recover", "panicMiddleware") # {}
        /\ w[s].resp.code = StatusMovedPermanently
        /\ w[s].resp.body = <<ISE>>

\* C11: a redirect request for a name that has no mapping leaves the tables
\* as they are, with no hit record inserted and no counter changed, and never
\* calls addHit; its status is 404 when every store operation of the request
\* works, and otherwise 404 or 500.
C11_UnknownNameIs404 ==
    \A s \in workers :
        (Over(s) /\ w[s].rq.route = "redirHandler" /\ w[s].pre.urls[w[s].rq.name] = NoRow) =>
            /\ hits = w[s].pre.hits
            /\ urls = w[s].pre.urls
            /\ Calls(s, "addHit") = {}
            /\ tx[s].h = <<>>
            /\ w[s].resp.loc = ""
            /\ w[s].resp.code \in {StatusNotFound, StatusInternalServerError}
            /\ w[s].rq.fault = "none" =>
                  /\ w[s].resp.code = StatusNotFound
                  /\ w[s].resp.body = <<StatusText(StatusNotFound)>>

\* baz is unknown while foo is there and has been redirected before
C11_Witness ==
    \E s \in workers :
        /\ Over(s)
        /\ w[s].rq.route = "redirHandler"
        /\ w[s].rq.name = "baz"
        /\ urls["baz"] = NoRow
        /\ urls["foo"] # NoRow
        /\ urls["foo"].hits = 1
        /\ Len(hits) = 1
        /\ w[s].resp.code = StatusNotFound

\* the redirects of name n whose transaction commits in this step
CommittingRedirects(n) ==
    {s \in workers : /\ tx[s].st = "open"
                     /\ tx'[s].st = "committed"
                     /\ w[s].rq.route = "redirHandler"
                     /\ w[s].rq.name = n
                     /\ tx[s].w[n] # Untouched}

\* C12: with requests served side by side, every step changes the committed
\* counter of a mapping by the number of redirects of its name that commit in
\* that step, which is 1 for the commit of a redirect and 0 for anything else:
\* an increment is never lost and never counted twice.
C12_NoLostUpdate ==
    [][\A n \in Names :
          (urls[n] # NoRow /\ urls'[n] # NoRow /\ urls'[n].id = urls[n].id) =>
              /\ urls'[n].hits = urls[n].hits + Cardinality(CommittingRedirects(n))
              /\ Cardinality(CommittingRedirects(n)) <= 1
      ]_vars

\* two redirects of foo that both arrived before either was committed, and
\* both are committed
C12_Witness ==
    /\ \A s \in Slots :
          /\ w[s].pc = "done"
          /\ w[s].rq.route = "redirHandler"
          /\ w[s].rq.name = "foo"
          /\ w[s].pre.urls["foo"] # NoRow
          /\ w[s].pre.urls["foo"].hits = 0
          /\ tx[s].st = "committed"
    /\ urls["foo"].hits = 2

\* a delete request whose handler has run and whose request is over
Deleted(s) == Handled(s) /\ w[s].rq.route = "deleteHandler"

\* the mapping the delete request of worker s names, as it was on arrival
Target(s) == w[s].pre.urls[w[s].rq.name]

\* C13: a delete by a user who is not the owner leaves the mapping as it was
\* and gets 403; a delete by the owner gets 200 with an empty body and the
\* name is no longer in the committed table (the statuses when every store
\* operation of the request works); and in every step a mapping leaves the
\* committed table only with the commit of a delete request for its name
\* whose user is its owner.
C13_OnlyOwnerDeletes ==
    [][/\ \A s \in workers :
             (Deleted(s) /\ CtxUser(s).v # "" /\ Target(s) # NoRow) =>
                 /\ CtxUser(s).v # Target(s).user =>
                       /\ urls = w[s].pre.urls
                       /\ hits = w[s].pre.hits
                       /\ Calls(s, "removeURL") = {}
                       /\ w[s].rq.fault = "none" => w[s].resp.code = StatusForbidden
                 /\ (CtxUser(s).v = Target(s).user /\ w[s].rq.fault = "none") =>
                       /\ ClientStatus(w[s].resp) = StatusOK
                       /\ w[s].resp.body = <<>>
                       /\ urls[w[s].rq.name] = NoRow
                       /\ getURLnID(OpenTx, urls, w[s].rq.name, "none").err = ErrNoRows
                       /\ getIDnUser(OpenTx, urls, w[s].rq.name, "none").err = ErrNoRows
       /\ \A n \in Names :
             (urls[n] # NoRow /\ urls'[n] # urls[n] /\ (urls'[n] = NoRow \/ urls'[n].id # urls[n].id)) =>
                 \E s \in workers :
                     /\ w[s].rq.route = "deleteHandler"
                     /\ w[s].rq.name = n
                     /\ CtxUser(s).v = urls[n].user
                     /\ tx'[s].st = "committed"
                     /\ urls'[n] = NoRow
      ]_vars

\* foo of user test has been deleted by test
C13_Witness ==
    \E s \in workers :
        /\ Deleted(s)
        /\ Target(s) # NoRow
        /\ CtxUser(s).v = Target(s).user
        /\ ClientStatus(w[s].resp) = StatusOK
        /\ urls[w[s].rq.name] = NoRow

\* the row operations of the request of worker s, in order
RECURSIVE OpsOf(_)
OpsOf(ev) ==
    IF ev = <<>> THEN <<>>
    ELSE (IF Head(ev).e \in RowOps THEN <<Head(ev).e>> ELSE <<>>) \o OpsOf(Tail(ev))

\* C14: deleteHandler with an empty user makes no store lookup (400); else it
\* looks the name up and stops there when the name is unknown (404) or the
\* owner is someone else (403); only else it calls removeURL (200); the
\* statuses are those of requests whose store operations all work.
C14_DeleteCheckOrder ==
    \A s \in workers :
        Deleted(s) =>
            LET ops == OpsOf(w[s].ev)
                ok == w[s].rq.fault = "none"
                code == ClientStatus(w[s].resp)
            IN  IF CtxUser(s).v = ""
                THEN ops = <<>> /\ (ok => code = StatusBadRequest)
                ELSE IF w[s].rq.fault = "stmt"
                THEN ops = <<"getIDnUser">> /\ code = StatusInternalServerError
                ELSE IF Target(s) = NoRow
                THEN ops = <<"getIDnUser">> /\ (ok => code = StatusNotFound)
                ELSE IF CtxUser(s).v # Target(s).user
                THEN ops = <<"getIDnUser">> /\ (ok => code = StatusForbidden)
                ELSE /\ ops = <<"getIDnUser", "removeURL">>
                     /\ ok => (code = StatusOK /\ urls[w[s].rq.name] = NoRow)

\* an empty user asks for a name that is unknown: 400, not 404
C14_Witness ==
    \E s \in workers :
        /\ Deleted(s)
        /\ CtxUser(s).v = ""
        /\ Target(s) = NoRow
        /\ w[s].resp.code = StatusBadRequest
        /\ OpsOf(w[s].ev) = <<>>

\* an admin-add request whose handler has run and whose request is over
Posted(s) == Handled(s) /\ w[s].rq.route = "adminPostHandler"

\* C15: the answer to an admin-add names the first failing check in the order
\* name, URL present, URL parses, user: no name gives "missing name" whatever
\* the URL is; a name and no URL gives "missing URL"; a name and a URL that
\* does not parse gives "invalid URL" with or without a user; only a form
\* that lacks nothing but the user gives "missing user".
C15_ValidationOrder ==
    \A s \in workers :
        (Posted(s) /\ w[s].rq.fault = "none") =>
            LET f == w[s].rq.form
                body == w[s].resp.body
            IN  /\ f.name = "" => body = <<ErrMissingName>>
                /\ (f.name # "" /\ f.url = "") => body = <<ErrMissingURL>>
                /\ (f.name # "" /\ f.url = BadURL) => body = <<ErrInvalidURL>>
                /\ (f.name # "" /\ f.url \notin {"", BadURL} /\ f.user = "") =>
                      body = <<ErrMissingUser>>
                /\ (f.name # "" /\ f.url \notin {"", BadURL} /\ f.user # "") =>
                      Calls(s, "addURL") # {}

\* neither name nor URL: the answer is about the name
C15_Witness ==
    \E s \in workers :
        /\ Posted(s)
        /\ w[s].rq.form.name = ""
        /\ w[s].rq.form.url = ""
        /\ w[s].resp.body = <<ErrMissingName>>

\* C16: an admin-add whose form fails validation never calls addURL and
\* leaves the tables and the id serial as they were; when the store
\* operations of the request work its status is 400 and its body is one of
\* "missing name", "missing URL", "invalid URL", "missing user" and nothing else.
C16_ValidationRejects ==
    \A s \in workers :
        (Posted(s) /\ ~FormComplete(w[s].rq.form)) =>
            /\ Calls(s, "addURL") = {}
            /\ urls = w[s].pre.urls
            /\ hits = w[s].pre.hits
            /\ tx[s].w = NoTx.w
            /\ w[s].rq.fault = "none" =>
                  /\ w[s].resp.code = StatusBadRequest
                  /\ w[s].resp.body \in {<<"missing name">>, <<"missing URL">>,
                                         <<"invalid URL">>, <<"missing user">>}

C16_Witness ==
    \E s \in workers :
        /\ Posted(s)
        /\ w[s].rq.form.user = ""
        /\ w[s].resp.code = StatusBadRequest
        /\ w[s].resp.body = <<"missing user">>
        /\ urls = w[s].pre.urls

\* an admin-add of a complete form for a name without mapping, all store
\* operations working
Added(s) ==
    /\ Posted(s)
    /\ FormComplete(w[s].rq.form)
    /\ w[s].pre.urls[w[s].rq.form.name] = NoRow
    /\ w[s].rq.fault = "none"

\* C17: after an admin-add of (name, url, user) for a name without mapping,
\* getURLnID of the name returns that url, getIDnUser of the name returns that
\* user, and urlsForUser of the user lists the name with that url and 0 hits.
C17_AddThenLookup ==
    \A s \in workers :
        Added(s) =>
            LET f == w[s].rq.form
            IN  /\ getURLnID(OpenTx, urls, f.name, "none").err = ""
                /\ getURLnID(OpenTx, urls, f.name, "none").row.url = f.url
                /\ getIDnUser(OpenTx, urls, f.name, "none").err = ""
                /\ getIDnUser(OpenTx, urls, f.name, "none").row.user = f.user
                /\ [name |-> f.name, url |-> f.url, hits |-> 0]
                      \in urlsForUser(OpenTx, urls, f.user, "none").urls

\* foo has been added for bar, who is not the user of the request
C17_Witness ==
    \E s \in workers :
        /\ Added(s)
        /\ w[s].rq.form = [name |-> "foo", url |-> cExampleOrg, user |-> "bar"]
        /\ CtxUser(s).v = "test"
        /\ urls["foo"].url = cExampleOrg
        /\ urls["foo"].user = "bar"

\* C18 as stated: every admin-add of a complete form gets 303 to /_admin and
\* its mapping is committed.
C18_Original ==
    \A s \in workers :
        (Posted(s) /\ FormComplete(w[s].rq.form) /\ w[s].rq.fault = "none") =>
            /\ w[s].resp.code = StatusSeeOther
            /\ w[s].resp.loc = "/_admin"
            /\ tx[s].st = "committed"

\* C18 amended: an admin-add of a complete form for a name that has no mapping
\* yet gets 303 to /_admin and its mapping is committed; a redirect request
\* for a name that has a mapping gets 301 with the stored URL as Location and
\* Cache-Control: private, max-age=90 (requests whose store operations work).
C18_AddThenRedirect ==
    \A s \in workers :
        /\ Added(s) =>
              /\ w[s].resp.code = StatusSeeOther
              /\ w[s].resp.loc = "/_admin"
              /\ tx[s].st = "committed"
              /\ urls[w[s].rq.form.name] # NoRow
              /\ urls[w[s].rq.form.name].url = w[s].rq.form.url
        /\ (Handled(s) /\ w[s].rq.route = "redirHandler" /\ w[s].rq.fault = "none"
              /\ w[s].pre.urls[w[s].rq.name] # NoRow) =>
              /\ w[s].resp.code = StatusMovedPermanently
              /\ w[s].resp.loc = w[s].pre.urls[w[s].rq.name].url
              /\ w[s].resp.cache = "private, max-age=90"

\* baz, which the store did not have at the start, is redirected
C18_Witness ==
    \E s \in workers :
        /\ Handled(s)
        /\ w[s].rq.route = "redirHandler"
        /\ w[s].rq.name = "baz"
        /\ w[s].pre.urls["baz"] # NoRow
        /\ w[s].resp.code = StatusMovedPermanently
        /\ w[s].resp.loc = cExampleOrg
        /\ w[s].resp.cache = "private, max-age=90"

\* errors.Is(e, sql.ErrNoRows) for an error without a status; an HTTPError
\* has no Unwrap and only carries the sentinel in its Err field
IsNoRows(e) == e.kind = "error" /\ e.msg = ErrNoRows

CarriesNoRows(e) == e.kind = "http" /\ e.err = ErrNoRows

\* withError renders the error its handler returned on a response nothing has
\* been written to
Renders(s) == w[s].pc = "withErrorRet" /\ w'[s] # w[s] /\ w[s].resp.code = 0

Causes ==
    {ErrBegin, ErrStmt, ErrCommit, ErrRollback, ErrClose, ErrUnique, ErrTxDone, ErrNoRows,
     ErrInvalidIP, ErrUnknown, "no tx", "no user", "failed rolling back"}

\* the step writes the answer to an error without a status: handleError logs
LogsError(s) ==
    /\ w'[s].pc # "idle"
    /\ \E i \in DOMAIN w'[s].ev :
          /\ i > Len(w[s].ev)
          /\ w'[s].ev[i].e = "log"
          /\ w'[s].ev[i].l = "handleError"

HandlerCtx(s) == w[s].objs[Len(w[s].objs)].ctx

\* the handler of worker s has been called and finds no transaction in its
\* context, or, where it asks for one, no user
Ungranted(s) ==
    /\ At(s, "enter", "withError") # {}
    /\ \/ ~HandlerCtx(s).tx
       \/ w[s].rq.route # "redirHandler" /\ ~HandlerCtx(s).user.set

\* a panicMiddleware was entered, and before any dbMiddleware
RecoveryOutside(s) ==
    /\ At(s, "enter", "panicMiddleware") # {}
    /\ \A d \in At(s, "enter", "dbMiddleware") :
          \E p \in At(s, "enter", "panicMiddleware") : p < d

\* the request of worker s got a transaction
Began(s) == \E b \in At(s, "BeginTx", "dbMiddleware") : w[s].ev[b].res = ""

NoRowOps(s) == \A i \in EvIdx(s) : w[s].ev[i].e \notin RowOps

HandlerAddr(s) == w[s].objs[Len(w[s].objs)].addr

\* a redirect of a name that was there, from an address parseIP refuses, with
\* the store working, is over
BadAddrRedirect(s) ==
    /\ Handled(s)
    /\ w[s].rq.route = "redirHandler"
    /\ w[s].rq.fault = "none"
    /\ w[s].pre.urls[w[s].rq.name] # NoRow
    /\ ~parseIP(HandlerAddr(s)).ok

\* C22: a redirect of a known name from an address that is no IP address
\* fails as a whole: the client gets 500, no hit row is committed and the
\* counter of the name is what it was before the request.
C22_BadAddressFailsRequest ==
    \A s \in workers :
        BadAddrRedirect(s) =>
            /\ ClientStatus(w[s].resp) = StatusInternalServerError
            /\ hits = w[s].pre.hits
            /\ urls[w[s].rq.name] = w[s].pre.urls[w[s].rq.name]

\* the ids of the mappings in table u
LiveIds(u) == {u[n].id : n \in {m \in Names : u[m] # NoRow}}

\* C23 as stated: a committed hit row is there, unchanged, ever after.
C23_Original == [][IsPrefix(hits, hits')]_vars

\* C23 amended: a committed hit row is never modified, and it is deleted only
\* together with the mapping it refers to: every step keeps, in their order
\* and unchanged, the hit rows whose mapping is still there, removes those
\* whose mapping the step deletes, and adds new rows only behind them of a
\* mapping that is there.
C23_HitsAppendOnly ==
    [][/\ IsPrefix(SelectHits(hits, LiveIds(urls')), hits')
       /\ \A i \in DOMAIN hits : hits[i].url_id \in LiveIds(urls)
       /\ \A i \in DOMAIN hits' : hits'[i].url_id \in LiveIds(urls')
       /\ LiveIds(urls) \subseteq LiveIds(urls') => IsPrefix(hits, hits')
      ]_vars

\* the owner has deleted a mapping that had a committed hit row
C23_Witness ==
    \E s \in workers :
        /\ Handled(s)
        /\ w[s].rq.route = "deleteHandler"
        /\ tx[s].st = "committed"
        /\ w[s].pre.hits # <<>>
        /\ hits = <<>>
        /\ urls[w[s].rq.name] = NoRow

\* C24: a mapping that is there keeps its id, target URL and owner as long
\* as it is there.  A step of a redirect request leaves every mapping as it
\* is or adds one to the counter of the mapping of its name; a step of a
\* delete request leaves every mapping as it is or removes the whole mapping
\* of its name; no step of a list request and no step of an add request
\* changes a mapping that is there, whatever name the add is for.
C24_NoUpdateInPlace ==
    [][\A n \in Names :
          urls[n] # NoRow =>
              /\ \/ urls'[n] = NoRow
                 \/ /\ urls'[n] # NoRow
                    /\ urls'[n].id = urls[n].id
                    /\ urls'[n].url = urls[n].url
                    /\ urls'[n].user = urls[n].user
              /\ \A s \in workers :
                    w'[s] # w[s] =>
                        CASE w[s].rq.route = "redirHandler" ->
                               \/ urls'[n] = urls[n]
                               \/ /\ n = w[s].rq.name
                                  /\ urls'[n] = [urls[n] EXCEPT !.hits = @ + 1]
                          [] w[s].rq.route = "deleteHandler" ->
                               \/ urls'[n] = urls[n]
                               \/ n = w[s].rq.name /\ urls'[n] = NoRow
                          [] OTHER -> urls'[n] = urls[n]
      ]_vars

\* an add of a name that is taken is over, and the mapping is what it was
C24_Witness ==
    \E s \in workers :
        /\ Posted(s)
        /\ validateAdminForm(w[s].rq.form) = ""
        /\ w[s].rq.fault = "none"
        /\ w[s].pre.urls[w[s].rq.form.name] # NoRow
        /\ w[s].pre.urls[w[s].rq.form.name].url # w[s].rq.form.url
        /\ urls[w[s].rq.form.name] = w[s].pre.urls[w[s].rq.form.name]

\* worker s is about to run addURL with a transaction that takes statements
Inserting(s) ==
    /\ w[s].pc = "adminPostHandler"
    /\ Cur(s).ctx.tx /\ Cur(s).ctx.user.set
    /\ validateAdminForm(w[s].rq.form) = ""
    /\ w[s].rq.fault = "none"
    /\ tx[s].st = "open"

\* the request of worker s ran into the unique constraint
HitUnique(s) == \E i \in At(s, "addURL", "adminPostHandler") : w[s].ev[i].res = ErrUnique

\* the request of worker s has inserted a row for name n
Inserted(s, n) ==
    /\ w[s].rq.route = "adminPostHandler"
    /\ w[s].rq.form.name = n
    /\ \E i \in At(s, "addURL", "adminPostHandler") : w[s].ev[i].res = ""

\* C25: a name has at most one mapping.  No step puts another row in the
\* place of a mapping that is there; addURL on a name that is taken returns
\* the unique violation, writes nothing and aborts its transaction, and on a
\* free name it inserts; a request that ran into the violation is answered
\* 500, never 303, and commits nothing; of two requests in progress that
\* have inserted the same name at most one is committed.
C25_UniqueName ==
    /\ [][\A n \in Names :
             (urls[n] # NoRow /\ urls'[n] # NoRow) => urls'[n].id = urls[n].id]_vars
    /\ [][\A s \in workers :
             (Inserting(s) /\ w'[s] # w[s]) =>
                 LET n == w[s].rq.form.name
                 IN  IF urls[n] # NoRow
                     THEN /\ w'[s].ev[Len(w'[s].ev)] = Ev("addURL", "adminPostHandler", ErrUnique)
                          /\ tx'[s].st = "failed"
                          /\ tx'[s].w = tx[s].w
                          /\ w'[s].resp = w[s].resp
                     ELSE /\ tx'[s].w[n] = Row(nextId, w[s].rq.form.url, w[s].rq.form.user, 0)
                          /\ w'[s].resp.code = StatusSeeOther]_vars
    /\ [](\A s \in workers :
             (Over(s) /\ HitUnique(s)) =>
                 /\ ClientStatus(w[s].resp) = StatusInternalServerError
                 /\ tx[s].st = "rolledback"
                 /\ \A n \in Names : ~Inserted(s, n)
                 /\ \A n \in Names : tx[s].w[n] = Untouched)
    /\ [](\A s \in workers : \A t \in workers \ {s} : \A n \in Names :
             (Inserted(s, n) /\ Inserted(t, n)) =>
                 ~(tx[s].st = "committed" /\ tx[t].st = "committed"))

\* two adds of baz were in progress side by side: one has committed, the
\* other ran into the violation
C25_Witness ==
    \E s \in workers : \E t \in workers \ {s} :
        /\ w[s].rq.route = "adminPostHandler" /\ w[t].rq.route = "adminPostHandler"
        /\ w[s].rq.form.name = w[t].rq.form.name
        /\ w[s].pre.urls[w[s].rq.form.name] = NoRow
        /\ w[t].pre.urls[w[t].rq.form.name] = NoRow
        /\ tx[s].st = "committed" /\ Inserted(s, w[s].rq.form.name)
        /\ Over(t) /\ HitUnique(t)
        /\ w[t].resp.code = StatusInternalServerError
        /\ urls[w[s].rq.form.name] = tx[s].w[w[s].rq.form.name]

\* a list request whose query and rows.Close() worked is over
Listed(s) ==
    /\ Handled(s)
    /\ w[s].rq.route = "adminGetHandler"
    /\ \E i \in At(s, "urlsForUser", "adminGetHandler") : w[s].ev[i].res = ""
    /\ At(s, "panic", "adminGetHandler") = {}

\* the mappings of user u in table t, as the list shows them
OwnedBy(t, u) ==
    {[name |-> n, url |-> t[n].url, hits |-> t[n].hits] :
        n \in {m \in Names : t[m] # NoRow /\ t[m].user = u}}

\* C26: the list for the user of the context is the page with exactly the
\* mappings that user owns, each with its name, its target URL and the
\* counter it has when the request arrives; no entry belongs to another user;
\* a user who owns nothing gets the page with no entries; the status is 200,
\* and nothing else is in the body when the Commit that follows works; the
\* list changes no table.
C26_ListExactlyOwn ==
    \A s \in workers :
        Listed(s) =>
            LET u == CtxUser(s).v
                page == w[s].resp.body[1]
            IN  /\ w[s].resp.code = StatusOK
                /\ page = [page |-> "adminPage", user |-> u, urls |-> OwnedBy(w[s].pre.urls, u)]
                /\ \A r \in page.urls : w[s].pre.urls[r.name].user = u
                /\ w[s].rq.fault \in {"none", "rollback"} => Len(w[s].resp.body) = 1
                /\ urls = w[s].pre.urls /\ hits = w[s].pre.hits

\* the list of test shows foo with the one hit it has had and not the baz of bar
C26_Witness ==
    \E s \in workers :
        /\ Listed(s)
        /\ CtxUser(s).v = "test"
        /\ urls["baz"] # NoRow /\ urls["baz"].user = "bar"
        /\ w[s].resp.body = <<[page |-> "adminPage", user |-> "test",
                               urls |-> {[name |-> "foo", url |-> cExampleCom, hits |-> 1]}]>>

\* the client of the request of worker s went away while its transaction was
\* in progress
Gone(s) == At(s, "cancel", "client") # {}

\* C27: from the moment the context of a request is cancelled with its
\* transaction in progress, the transaction is never committed: it waits for
\* its rollback or is rolled back, no Commit called after the cancellation
\* returns nil, the committed tables stay as they were when the request
\* arrived, whatever the handler had written in the transaction and whatever
\* it calls afterwards; when the request is over the transaction is rolled
\* back.
C27_CancelRollsBack ==
    \A s \in workers :
        Gone(s) =>
            /\ tx[s].st \in {"canceled", "rolledback"}
            /\ urls = w[s].pre.urls
            /\ hits = w[s].pre.hits
            /\ \A g \in At(s, "cancel", "client") : \A i \in EvIdx(s) :
                  (i > g /\ w[s].ev[i].e \in RowOps \cup {"Commit"}) =>
                      w[s].ev[i].res \in {ErrCanceled, ErrTxDone}
            /\ Over(s) => tx[s].st = "rolledback"

\* a redirect had added one to the counter of foo when its client went away;
\* Commit returned the error of the context and the deferred function of
\* dbMiddleware rolled back
C27_Witness ==
    \E s \in workers :
        /\ Over(s)
        /\ Gone(s)
        /\ w[s].rq.route = "redirHandler"
        /\ tx[s].w["foo"] # Untouched
        /\ tx[s].w["foo"].hits = urls["foo"].hits + 1
        /\ \E c \in At(s, "Commit", "dbMiddleware") : w[s].ev[c].res = ErrCanceled
        /\ tx[s].st = "rolledback"

\* the request of worker s ended its own transaction: a Commit or Rollback of
\* its own returned nil, or its Commit was refused and the store rolled back
ClosedByOwn(s) ==
    \E i \in EvIdx(s) :
        \/ w[s].ev[i].e \in {"Commit", "Rollback"} /\ w[s].ev[i].res = ""
        \/ w[s].ev[i].e = "Commit" /\ w[s].ev[i].res = ErrCommit

\* C28: with requests served side by side, every step is the step of one
\* request and leaves the transaction, the contexts and the position of every
\* other request as they are, so that no panic and no rejection of one request
\* commits or rolls back the transaction of another; a transaction changes only
\* in a step of its own request; a context holds a transaction only in the
\* request whose dbMiddleware began it; a transaction is committed or rolled
\* back only by a call recorded in its own request.
C28_OwnTransaction ==
    /\ [][\A s \in workers :
             w'[s] # w[s] => \A t \in Slots \ {s} : tx'[t] = tx[t] /\ w'[t] = w[t]]_vars
    /\ [][\A t \in Slots : tx'[t] # tx[t] => w'[t] # w[t]]_vars
    /\ [](\A s \in workers : \A i \in DOMAIN w[s].objs :
             w[s].objs[i].ctx.tx => (Began(s) /\ tx[s].st # "none"))
    /\ [](\A s \in workers :
             tx[s].st \in {"committed", "rolledback", "broken"} => ClosedByOwn(s))

\* a list request has panicked and dbMiddleware has rolled its transaction
\* back while the transaction of a redirect in progress stays open with its
\* increment
C28_Witness ==
    \E s \in workers : \E t \in workers \ {s} :
        /\ InnerPanics(s) # {}
        /\ tx[s].st = "rolledback"
        /\ w[s].pc = "panic"
        /\ w[t].rq.route = "redirHandler"
        /\ tx[t].st = "open"
        /\ tx[t].w["foo"] # Untouched

UserLayers == {"staticUserMiddleware", "remoteUserMiddleware"}

\* the user a user middleware l supplies for request rq
Supplied(l, rq) ==
    IF l.kind = "staticUserMiddleware" THEN l.arg
    ELSE IF l.arg = "X-Remote-User" THEN rq.hUser ELSE ""

\* the user layers of a composed handler
UserLayersOf(h) == {i \in 1..Len(h) : h[i].kind \in UserLayers}

\* C29: the step of a user middleware makes a new request value for the layer
\* below whose context has the user, and leaves every request value the outer
\* layers hold as it is; the static variant supplies its configured user
\* whatever the request carries, the header variant the value of its header,
\* empty when the header is absent; the rest of the context and the remote
\* address go on unchanged.  Every route of setupServeMux has exactly one
\* user layer: the static one with "test" when no remote-user header is
\* configured, else the header variant with the configured header; so the
\* handler sees "test", or the value of the header.
C29_UserMiddleware ==
    /\ [][\A s \in workers :
             (w[s].pc = "call" /\ w[s].todo # <<>> /\ Head(w[s].todo).kind \in UserLayers
                /\ w'[s] # w[s]) =>
                 LET l == Head(w[s].todo)
                     n == Len(w[s].objs)
                 IN  /\ Len(w'[s].objs) = n + 1
                     /\ \A i \in 1..n : w'[s].objs[i] = w[s].objs[i]
                     /\ w'[s].cur = n + 1
                     /\ w'[s].objs[n + 1].ctx.user = UserVal(Supplied(l, w[s].rq))
                     /\ w'[s].objs[n + 1].ctx.tx = Cur(s).ctx.tx
                     /\ w'[s].objs[n + 1].addr = Cur(s).addr
                     /\ w'[s].stack[Len(w'[s].stack)] = [layer |-> l, obj |-> w[s].cur]]_vars
    /\ [](\A rt \in Routes :
             /\ Cardinality(UserLayersOf(mux[rt])) = 1
             /\ \A i \in UserLayersOf(mux[rt]) :
                   mux[rt][i] = IF conf.RemoteUserHeader = ""
                                THEN staticUserMiddlewareOf("test")
                                ELSE remoteUserMiddlewareOf(conf.RemoteUserHeader))
    /\ [](\A s \in workers :
             At(s, "enter", "withError") # {} =>
                 HandlerCtx(s).user = UserVal(IF conf.RemoteUserHeader = "" THEN "test"
                                              ELSE w[s].rq.hUser))

\* under the static user a delete that carries the header value bar is served
\* as test, and the request value of the layer above has no user
C29_Witness ==
    \E s \in workers :
        /\ Handled(s)
        /\ conf.RemoteUserHeader = ""
        /\ w[s].rq.hUser = "bar"
        /\ HandlerCtx(s).user = UserVal("test")
        /\ w[s].objs[Len(w[s].objs) - 1].ctx.user = NoUser
        /\ w[s].objs[1].ctx = NoCtx

\* the value of the header that realIPMiddleware l reads from request rq
RealIPHeaderOf(l, rq) == IF l.arg = "X-Real-IP" THEN rq.hReal ELSE NoAddr

\* the layers entered between the entry i and the exit x of realIPMiddleware
EnteredBetween(s, i, x) == {j \in EvIdx(s) : i < j /\ j < x /\ w[s].ev[j].e = "enter"
                                             /\ w[s].ev[j].l \in UserLayers}

\* C30: the step of realIPMiddleware sets the remote address of the request
\* value it was called with to the value of its header when that value is not
\* empty and leaves it as it was when the header is absent or empty; nothing
\* else of the request changes and the layer below is called with the same
\* request value.  The layer below is entered right after realIPMiddleware,
\* and exactly once by the time realIPMiddleware is left; the handler sees
\* the address so chosen.
C30_RealIP ==
    /\ [][\A s \in workers :
             (w[s].pc = "call" /\ w[s].todo # <<>>
                /\ Head(w[s].todo).kind = "realIPMiddleware" /\ w'[s] # w[s]) =>
                 LET l == Head(w[s].todo)
                     hdr == RealIPHeaderOf(l, w[s].rq)
                 IN  /\ w'[s].cur = w[s].cur
                     /\ w'[s].objs = [w[s].objs EXCEPT ![w[s].cur].addr =
                                          IF hdr # NoAddr THEN hdr ELSE Cur(s).addr]
                     /\ w'[s].todo = Tail(w[s].todo)
                     /\ w'[s].pc = "call"
                     /\ w'[s].stack = Append(w[s].stack, [layer |-> l, obj |-> w[s].cur])]_vars
    /\ [](\A s \in workers :
             /\ Cardinality(At(s, "enter", "realIPMiddleware")) <= 1
             /\ \A i \in At(s, "enter", "realIPMiddleware") :
                   /\ i < Len(w[s].ev) =>
                         (w[s].ev[i + 1].e = "enter" /\ w[s].ev[i + 1].l \in UserLayers)
                   /\ \A x \in At(s, "exit", "realIPMiddleware") :
                         Cardinality(EnteredBetween(s, i, x)) = 1)
    /\ [](\A s \in workers :
             At(s, "enter", "withError") # {} =>
                 HandlerAddr(s) = IF conf.RealIPHeader # "" /\ w[s].rq.hReal # NoAddr
                                  THEN w[s].rq.hReal ELSE w[s].rq.addr)

\* behind the proxy a request from an address that does not parse is counted
\* under the address of the header
C30_Witness ==
    \E s \in workers :
        /\ Handled(s)
        /\ conf.RealIPHeader = "X-Real-IP"
        /\ w[s].rq.addr = BadAddr
        /\ w[s].rq.hReal = ProxyAddr
        /\ HandlerAddr(s) = ProxyAddr
        /\ At(s, "exit", "realIPMiddleware") # {}
        /\ w[s].resp.code = StatusMovedPermanently

\* the step of worker s resolves an error: withError answers the error its
\* handler returned, or panicMiddleware answers a recovered panic
Resolves(s) ==
    /\ s \in workers
    /\ w'[s] # w[s]
    /\ \/ w[s].pc = "withErrorRet" /\ w[s].err # NoErr
       \/ TopLayerIs(s, "panic", "panicMiddleware")

ResolvesHTTP(s) == w[s].pc = "withErrorRet" /\ w[s].err.kind = "http"

LastLog(rec) == rec.log[Len(rec.log)]

RequestAttrs == {"method", "url", "remote"}

\* C31 as stated: every error resolution logs one entry with method, path,
\* remote address, status and cause.
C31_Original ==
    [][\A s \in workers :
          Resolves(s) =>
              /\ Len(w'[s].log) = Len(w[s].log) + 1
              /\ RequestAttrs \cup {"status", "err"} \subseteq DOMAIN LastLog(w'[s])
      ]_vars

\* C31 amended: every error resolution writes one error log entry with the
\* status and the error it resolved, and writes the error text to the client
\* in the same step; the entry of an HTTP error has its code, its Err field
\* and its message, and the method, the URI and the remote address of the
\* request; the entries of the generic 500 of withError and of panic recovery
\* have the status 500 and the error and nothing of the request.  The error
\* log grows in no other step, and no response gets an error status without
\* an entry.
C31_ErrorLogged ==
    /\ [][\A s \in workers :
             Resolves(s) =>
                 LET e == LastLog(w'[s])
                 IN  /\ Len(w'[s].log) = Len(w[s].log) + 1
                     /\ \A i \in 1..Len(w[s].log) : w'[s].log[i] = w[s].log[i]
                     /\ Len(w'[s].resp.body) = Len(w[s].resp.body) + 1
                     /\ IF ResolvesHTTP(s)
                        THEN /\ DOMAIN e = RequestAttrs \cup {"status", "err", "message"}
                             /\ e.status = w[s].err.code
                             /\ e.err = w[s].err.err
                             /\ e.message = polish(w[s].err).msg
                             /\ e.method = Method(w[s].rq)
                             /\ e.url = RequestURI(w[s].rq)
                             /\ e.remote = Cur(s).addr
                        ELSE /\ DOMAIN e = {"status", "err"}
                             /\ e.status = StatusInternalServerError
                             /\ e.err = IF w[s].pc = "withErrorRet" THEN w[s].err
                                        ELSE RecoveredErr(w[s].pan)]_vars
    /\ [][\A s \in workers :
             (w'[s].pc # "idle" /\ w'[s].log # w[s].log) => Resolves(s)]_vars
    /\ [](\A s \in workers : w[s].resp.code >= 400 => w[s].log # <<>>)

\* a failed statement: withError answers 500 and logs status and error only;
\* the Commit of the aborted transaction then fails and panic recovery logs
\* its own entry
C31_Witness ==
    \E s \in workers :
        /\ w[s].pc = "done"
        /\ w[s].resp.code = StatusInternalServerError
        /\ Len(w[s].log) = 2
        /\ DOMAIN w[s].log[1] = {"status", "err"}
        /\ w[s].log[1].err = PlainError(ErrStmt)
        /\ DOMAIN w[s].log[2] = {"status", "err"}

\* the text an error leaves on the response: its message, or the reason
\* phrase of its status for an empty message, or the phrase of 500 for an
\* error without a status
ErrorText(err) ==
    IF err.kind = "http"
    THEN IF err.msg = "" THEN StatusText(err.code) ELSE err.msg
    ELSE StatusText(StatusInternalServerError)

ErrorStatus(err) == IF err.kind = "http" THEN err.code ELSE StatusInternalServerError

\* C32: at the return of its handler withError leaves the response and the
\* error log as they are for nil; for an error with a ServeHTTP of its own it
\* writes the status and the message of that error, the reason phrase of the
\* status for an empty message; for any other error it writes 500 and the
\* reason phrase of 500.  The status goes on a response that has none yet
\* and the text at the end of the body; an error with a status of its own
\* always finds a response without one.  In every case withError returns to
\* the layer above without a panic.
C32_WithError ==
    [][\A s \in workers :
          (w[s].pc = "withErrorRet" /\ w'[s] # w[s]) =>
              LET err == w[s].err
              IN  /\ err = NoErr => (w'[s].resp = w[s].resp /\ w'[s].log = w[s].log)
                  /\ err # NoErr =>
                        /\ w'[s].resp.body = Append(w[s].resp.body, ErrorText(err))
                        /\ w'[s].resp.code = IF w[s].resp.code = 0 THEN ErrorStatus(err)
                                             ELSE w[s].resp.code
                        /\ w'[s].resp.loc = w[s].resp.loc
                        /\ err.kind = "http" => w[s].resp.code = 0
                  /\ w'[s].pan = NoPanic
                  /\ w'[s].pc \in {"ret", "done"}
                  /\ w'[s].stack = Pop(w[s].stack)
                  /\ Top(s).layer.kind = "withError"
      ]_vars

\* withError alone has answered an HTTP error of 404 without a message with
\* the reason phrase of 404
C32_Witness ==
    \E s \in workers :
        /\ w[s].pc = "done"
        /\ w[s].rq = NoReq
        /\ w[s].err = HTTPError(StatusNotFound, "", "")
        /\ w[s].resp.code = StatusNotFound
        /\ w[s].resp.body = <<StatusText(StatusNotFound)>>
        /\ w[s].pan = NoPanic

\* positions of the calls of BeginTx that failed
BeginFailures(s) == {i \in Calls(s, "BeginTx") : w[s].ev[i].res # ""}

\* C33: after a failed BeginTx dbMiddleware panics with the error of BeginTx
\* and calls nothing below it: no layer is entered after the failure, the
\* handler does not run and makes no row operation, nobody calls Commit or
\* Rollback, no transaction exists and the store stays as it was; panic
\* recovery gets the error of BeginTx, logs it and the client gets 500 with
\* the reason phrase of 500.
C33_BeginFails ==
    \A s \in workers :
        \A i \in BeginFailures(s) :
            /\ \A j \in EvIdx(s) : j > i => w[s].ev[j].e # "enter"
            /\ At(s, "enter", "withError") = {}
            /\ \A op \in RowOps \cup {"Commit", "Rollback"} : Calls(s, op) = {}
            /\ i < Len(w[s].ev)
            /\ w[s].ev[i + 1] = Ev("exit", "dbMiddleware", "panic")
            /\ tx[TxOf(s)].st = "none"
            /\ urls = w[s].pre.urls
            /\ hits = w[s].pre.hits
            /\ w[s].pc = "panic" =>
                  (w[s].pan = PanicErr(w[s].ev[i].res) /\ w[s].resp = NoResp)
            /\ w[s].pc \in {"panic", "ret", "done"}
            /\ w[s].pc \in {"ret", "done"} =>
                  /\ w[s].resp.code = StatusInternalServerError
                  /\ w[s].resp.body = <<StatusText(StatusInternalServerError)>>
                  /\ w[s].log = <<handleErrorLog(PlainError(w[s].ev[i].res),
                                                 StatusInternalServerError)>>

\* a request to delete foo whose BeginTx failed is over with 500, and foo is
\* still there
C33_Witness ==
    \E s \in workers :
        /\ w[s].pc = "done"
        /\ BeginFailures(s) # {}
        /\ w[s].rq.route = "deleteHandler"
        /\ w[s].rq.name = "foo"
        /\ urls["foo"] # NoRow
        /\ w[s].resp.code = StatusInternalServerError

\* the statuses with which the handlers answer a request they served
SuccessStatuses == {StatusOK, StatusMovedPermanently, StatusSeeOther}

\* the handler of worker s returned nil after it wrote a response, and the
\* Commit of dbMiddleware failed
WroteThenCommitFailed(s) ==
    /\ FailedCommits(s) # {}
    /\ w[s].err = NoErr
    /\ w[s].cc \in SuccessStatuses

\* C34: after the handler wrote its response and returned nil and Commit
\* failed, panic recovery leaves the status, the Location and what is in the
\* body as the handler wrote them and puts the reason phrase of 500 at the end
\* of the body; the request ends with the status of the handler, which is 200
\* for the admin page, and with the body of the handler followed by the phrase.
C34_StatusStays ==
    /\ [][\A s \in workers :
             (WroteThenCommitFailed(s) /\ TopLayerIs(s, "panic", "panicMiddleware")
                /\ w'[s] # w[s]) =>
                 /\ w'[s].resp.code = w[s].cc
                 /\ w'[s].resp.loc = w[s].resp.loc
                 /\ w'[s].resp.body =
                       Append(w[s].resp.body, StatusText(StatusInternalServerError))]_vars
    /\ [](\A s \in workers :
             (WroteThenCommitFailed(s) /\ w[s].pc # "idle") =>
                 /\ w[s].resp.code = w[s].cc
                 /\ w[s].rq.route = "adminGetHandler" => w[s].cc = StatusOK
                 /\ Over(s) =>
                       /\ w[s].pc = "done"
                       /\ w[s].resp.body # <<>>
                       /\ w[s].rq.route = "adminGetHandler" => Len(w[s].resp.body) = 2
                       /\ w[s].resp.body[Len(w[s].resp.body)] =
                             StatusText(StatusInternalServerError))

\* the admin page was written with 200, Commit failed, and the client has 200
\* and the page with the phrase after it
C34_Witness ==
    \E s \in workers :
        /\ w[s].pc = "done"
        /\ w[s].rq.route = "adminGetHandler"
        /\ WroteThenCommitFailed(s)
        /\ w[s].resp.code = StatusOK
        /\ Len(w[s].resp.body) = 2
        /\ w[s].resp.body[2] = StatusText(StatusInternalServerError)

\* C35 as stated: after a Commit that failed with something else than
\* ErrTxDone, the value panicMiddleware recovers is the error of that Commit;
\* the deferred function of dbMiddleware does not put the result of a
\* Rollback in its place.
C35_CommitErrorReachesRecovery ==
    \A s \in workers :
        \A c \in FailedCommits(s) :
            \A r \in At(s, "recover", "panicMiddleware") :
                r > c => w[s].ev[r].res = w[s].ev[c].res

\* the redirect of worker s is one that succeeds: the name was registered
\* when the request came, the address the handler sees parses, and no
\* operation of the store fails
SuccessfulRedirect(s) ==
    /\ w[s].rq.route = "redirHandler"
    /\ w[s].rq.fault = "none"
    /\ w[s].pre.urls[w[s].rq.name] # NoRow
    /\ At(s, "enter", "withError") # {}
    /\ parseIP(HandlerAddr(s)).ok

\* the hit record of the redirect of worker s
HitOf(s) ==
    [url_id |-> w[s].pre.urls[w[s].rq.name].id,
     remotehost |-> parseIP(HandlerAddr(s)).ip,
     agent |-> w[s].rq.agent,
     referrer |-> IF w[s].rq.referer = "" THEN Null
                  ELSE [null |-> FALSE, v |-> w[s].rq.referer]]

\* C36: a successful redirect calls addHit exactly once, after the 301 and
\* the Location are on the response, which addHit leaves as it is; when the
\* request is over the committed table hits is the table of before with one
\* more record, which has the id of the mapping that was looked up, the IP of
\* the remote address, the user agent and the referrer of the request, with no
\* value for the referrer when the Referer header is empty.
C36_OneHitPerRedirect ==
    /\ [][\A s \in workers :
             (w[s].pc = "redirAddHit" /\ w'[s] # w[s]) =>
                 /\ w[s].resp.code = StatusMovedPermanently
                 /\ w[s].resp.loc = w[s].pre.urls[w[s].rq.name].url
                 /\ w'[s].resp = w[s].resp
                 /\ Calls(s, "addHit") = {}
                 /\ SuccessfulRedirect(s) =>
                       tx'[TxOf(s)].h = <<HitOf(s)>>]_vars
    /\ [](\A s \in workers :
             (SuccessfulRedirect(s) /\ Over(s)) =>
                 /\ Cardinality(Calls(s, "addHit")) = 1
                 /\ w[s].resp.code = StatusMovedPermanently
                 /\ hits = Append(w[s].pre.hits, HitOf(s)))

\* two redirects of foo, the first without and the second with a Referer
\* header, have left two records
C36_Witness ==
    \E s \in workers :
        /\ w[s].pc = "done"
        /\ SuccessfulRedirect(s)
        /\ Len(hits) = 2
        /\ hits[1].referrer = Null
        /\ hits[2].referrer = [null |-> FALSE, v |-> cExampleOrg]
        /\ hits[2].agent = "testagent"
        /\ hits[2].url_id = urls["foo"].id

\* the committed hit records that refer to the mapping with id id
HitsFor(id) == {i \in DOMAIN hits : hits[i].url_id = id}

\* C37 as stated: in every committed state the counter of every mapping is
\* the number of the hit records that refer to it.
C37_CounterMatchesHits ==
    \A n \in Names :
        urls[n] # NoRow => urls[n].hits = Cardinality(HitsFor(urls[n].id))

\* the add request of worker s has a complete form for a name that was free
\* when it came, its handler ran with a user in its context, and no
\* operation of the store fails
AddsFreeName(s) ==
    /\ w[s].rq.route = "adminPostHandler"
    /\ w[s].rq.fault = "none"
    /\ validateAdminForm(w[s].rq.form) = ""
    /\ w[s].pre.urls[w[s].rq.form.name] = NoRow
    /\ Calls(s, "addURL") # {}

\* C38: an add request with a complete form for a free name is answered 303
\* and leaves a mapping whose owner is the form field user and whose URL is
\* the form field url, whatever user its context holds (the user of the
\* form, another user, the empty user); a handler that ran addURL had a user
\* in its context, and the row it wrote in its transaction has the owner of
\* the form.
C38_OwnerFromForm ==
    /\ [][\A s \in workers :
             (w[s].pc = "adminPostHandler" /\ w'[s] # w[s]
                /\ Len(w'[s].ev) > Len(w[s].ev)
                /\ w'[s].ev[Len(w'[s].ev)] = Ev("addURL", "adminPostHandler", "")) =>
                 /\ Cur(s).ctx.user.set
                 /\ tx'[TxOf(s)].w[w[s].rq.form.name].user = w[s].rq.form.user
                 /\ tx'[TxOf(s)].w[w[s].rq.form.name].url = w[s].rq.form.url]_vars
    /\ [](\A s \in workers :
             (AddsFreeName(s) /\ Over(s)) =>
                 /\ w[s].resp.code = StatusSeeOther
                 /\ urls[w[s].rq.form.name] # NoRow
                 /\ urls[w[s].rq.form.name].user = w[s].rq.form.user
                 /\ urls[w[s].rq.form.name].url = w[s].rq.form.url)

\* behind the remote-user header bar has added baz for test: the mapping
\* belongs to test
C38_Witness ==
    \E s \in workers :
        /\ w[s].pc = "done"
        /\ AddsFreeName(s)
        /\ HandlerCtx(s).user = UserVal("bar")
        /\ w[s].rq.form.user = "test"
        /\ urls["baz"] # NoRow
        /\ urls["baz"].user = "test"

\* the request of worker s got a transaction from BeginTx
Opened(s) == \E i \in Calls(s, "BeginTx") : w[s].ev[i].res = ""

\* C39: once dbMiddleware has been left, by return or by panic, and so once
\* the request is over, a transaction that BeginTx opened is done: Commit or
\* Rollback was called on it after BeginTx, by dbMiddleware or by the
\* handler, and it is neither open nor waiting in a failed state (the call
\* found it open, unless database/sql had rolled it back for a client that
\* went away); this holds
\* for every chain, whether the handler returned nil, returned an error,
\* rolled back itself or panicked, and whether or not anything recovers the
\* panic above dbMiddleware.
C39_NoOpenTransaction ==
    \A s \in workers :
        (Opened(s) /\ (Over(s) \/ At(s, "exit", "dbMiddleware") # {})) =>
            /\ TxDone(tx[TxOf(s)])
            /\ \E c \in Calls(s, "Commit") \cup Calls(s, "Rollback") :
                  /\ \A b \in Calls(s, "BeginTx") : b < c
                  /\ \A x \in At(s, "exit", "dbMiddleware") : c < x
                  /\ w[s].ev[c].res # ErrTxDone \/ At(s, "awaitDone", "sql.Tx") # {}

\* a handler panicked under a dbMiddleware with nothing above it to recover:
\* the request crashed and its transaction is rolled back
C39_Witness ==
    \E s \in workers :
        /\ w[s].pc = "crashed"
        /\ Opened(s)
        /\ Calls(s, "panic") # {}
        /\ tx[TxOf(s)].st = "rolledback"

====
